---- MODULE Spec2Model ----
(***************************************************************************)
(* A model of ShapeShifter's path editing engine: CommandState and its     *)
(* mutator (commands/CommandState.ts), the PathMutator builder             *)
(* (commands/PathMutator.ts) and the SubPathState forest it edits.         *)
(*                                                                         *)
(* Parameter values t in [0,1] are kept as integers in 0..TScale, so that  *)
(* t = 1 is TScale.  Points are tokens [c, t]: "the point of backing       *)
(* command c at parameter t"; NoPoint is the undefined start of the very   *)
(* first Move.  Ids come from one counter, as lodash's uniqueId does.      *)
(***************************************************************************)
EXTENDS Integers, Sequences, FiniteSets, TLC

VARIABLES
  cs,                     \* SpecCS: the CommandState being edited
  other,                  \* SpecCS: the other half of the last fork
  subPathStateMap,        \* PathMutator.subPathStateMap (forest of SubPathStates)
  subPathOrdering,        \* PathMutator.subPathOrdering (0-based leaf indices)
  numCollapsingSubPaths,  \* PathMutator.numCollapsingSubPaths
  idCounter,              \* the last id handed out by _.uniqueId()
  steps,                  \* the number of operations applied so far
  last,                   \* the last operation, its arguments and its result
  source,                 \* SpecSnapshot: the snapshot the mutator was created from
  calculator,             \* SpecPoint: the PointCalculator being used
  effects                 \* SpecEffects: the Firestore writes of ProjectsEffects

vars == <<cs, other, subPathStateMap, subPathOrdering, numCollapsingSubPaths,
          idCounter, steps, last, source, calculator, effects>>

----------------------------------------------------------------------------
(* Bounds *)

\* half the resolution of the parameter axis
HalfScale == 2
\* resolution of the parameter axis: t = k / TScale, and t = 1/2 is on the grid
TScale == 2 * HalfScale
\* largest number of mutations a CommandState is grown to
MaxMutations == 3
\* largest number of t values handed to one split
MaxTs == 1
\* largest number of operations in one run of the CommandState specification
MaxCsSteps == 2
\* largest number of operations in one run of the PathMutator specification
MaxSteps == 2
\* largest numShifts handed to a shift
MaxShifts == 1
\* largest number of commands of a collapsing sub path
MaxCollapsingCommands == 2
\* the matrices of a transform are 0..MaxMatrix
MaxMatrix == 1
\* largest number of Create / Update / Delete actions dispatched in one run
MaxWrites == 3

----------------------------------------------------------------------------
(* Sequence helpers (Array.prototype.splice / slice, lodash) *)

Min(a, b) == IF a < b THEN a ELSE b
Max(a, b) == IF a > b THEN a ELSE b

\* arr.splice(idx, 0, x) with a 0-based idx
InsertAt(arr, idx, x) ==
  SubSeq(arr, 1, idx) \o <<x>> \o SubSeq(arr, idx + 1, Len(arr))

\* the start index splice() works from: a negative one counts from the end
SpliceStart(arr, idx) ==
  IF idx < 0 THEN Max(Len(arr) + idx, 0) ELSE Min(idx, Len(arr))

\* arr.splice(idx, 1) with a 0-based idx
RemoveAt(arr, idx) ==
  LET start == SpliceStart(arr, idx)
  IN  SubSeq(arr, 1, start) \o SubSeq(arr, start + 2, Len(arr))

RECURSIVE BaseSortedIndex(_, _, _, _)
\* lodash's binary search: the lowest index at which value keeps ts sorted
BaseSortedIndex(ts, value, low, high) ==
  IF low < high
    THEN LET mid == (low + high) \div 2
         IN  IF ts[mid + 1] < value
               THEN BaseSortedIndex(ts, value, mid + 1, high)
               ELSE BaseSortedIndex(ts, value, low, mid)
    ELSE high

\* _.sortedIndex(ts, value) and _.sortedIndexBy(mutations, m, m => m.t)
SortedIndex(ts, value) == BaseSortedIndex(ts, value, 0, Len(ts))

\* MathUtil.lerp(a, b, k / TScale)
Lerp(a, b, k) == a + ((b - a) * k) \div TScale
\* the interpolated value is on the integer grid of the model
LerpExact(a, b, k) == ((b - a) * k) % TScale = 0

----------------------------------------------------------------------------
(* Commands and points *)

\* new Matrix(): the identity
IdentityMatrix == 0

RECURSIVE Flatten(_)
\* Matrix.flatten(...matrices): the product of the matrices
Flatten(matrices) ==
  IF Len(matrices) = 0 THEN IdentityMatrix
  ELSE (Head(matrices) + Flatten(Tail(matrices))) % (MaxMatrix + 1)

\* a point carries the matrix m that moved it from where the path had it
NoPoint == [c |-> 0, t |-> 0, m |-> IdentityMatrix]
Pt(c, t) == [c |-> c, t |-> t, m |-> IdentityMatrix]

\* the image of a point under a matrix; an undefined point stays undefined
Image(p, matrix) ==
  IF p = NoPoint THEN p ELSE [p EXCEPT !.m = Flatten(<<matrix, p.m>>)]

\* newCommand(svgChar, [start, end]) with the id the caller drew
NewCommand(id, svgChar, start, end) ==
  [id |-> id, svgChar |-> svgChar, isSplit |-> FALSE, start |-> start, end |-> end]

\* calculator.split(t1, t2): the point of the backing command at parameter t.
\* A command whose points all coincide is backed by a PointCalculator, which
\* answers every split with its one point.
PointAt(backing, t) ==
  IF backing.start = backing.end THEN backing.end
  ELSE IF t = 0 THEN backing.start
  ELSE IF t = TScale THEN backing.end
  ELSE Pt(backing.id, t)

----------------------------------------------------------------------------
(* CommandState and CommandStateMutator *)

\* build() with the isSplit test of the loop dropped: every command, the last
\* one included, is flagged as a split boundary
Build_AllSplit(backing, transforms, mutations, minT, maxT) ==
  [backingCommand |-> backing,
   commands |->
     [i \in 1..Len(mutations) |->
        [id      |-> mutations[i].id,
         svgChar |-> mutations[i].svgChar,
         isSplit |-> TRUE,
         start   |-> Image(PointAt(backing, IF i = 1 THEN minT ELSE mutations[i - 1].t),
                           transforms[1]),
         end     |-> Image(PointAt(backing, mutations[i].t), transforms[1])]],
   mutations |-> mutations,
   transforms |-> transforms,
   minT |-> minT,
   maxT |-> maxT]

\* CommandStateMutator.build()
Build(backing, transforms, mutations, minT, maxT) ==
  [backingCommand |-> backing,
   commands |->
     [i \in 1..Len(mutations) |->
        [id      |-> mutations[i].id,
         svgChar |-> mutations[i].svgChar,
         isSplit |-> (i # Len(mutations)),
         start   |-> Image(PointAt(backing, IF i = 1 THEN minT ELSE mutations[i - 1].t),
                           transforms[1]),
         end     |-> Image(PointAt(backing, mutations[i].t), transforms[1])]],
   mutations |-> mutations,
   transforms |-> transforms,
   minT |-> minT,
   maxT |-> maxT]

\* new CommandState(backingCommand)
NewCommandState(backing) ==
  [backingCommand |-> backing,
   commands |-> <<backing>>,
   mutations |-> <<[id |-> backing.id, t |-> TScale, svgChar |-> backing.svgChar]>>,
   transforms |-> <<IdentityMatrix>>,
   minT |-> 0,
   maxT |-> TScale]

Ts(mutations) == [i \in 1..Len(mutations) |-> mutations[i].t]
\* [this.minT, ...this.mutations.map(m => m.t)]
TempSplits(c) == <<c.minT>> \o Ts(c.mutations)

RECURSIVE SplitInsert_Push(_, _, _, _, _, _)
\* the insertion loop of split() with push() in place of the sorted insertion
SplitInsert_Push(mutations, ts, i, currSplits, currSvgChars, idc) ==
  IF i > Len(ts) THEN mutations
  ELSE LET t == ts[i]
           svgChar == currSvgChars[SortedIndex(currSplits, t) + 1]
           mutation == [id |-> idc + i, t |-> t, svgChar |-> svgChar]
       IN  SplitInsert_Push(Append(mutations, mutation),
                            ts, i + 1, currSplits, currSvgChars, idc)

RECURSIVE SplitInsert(_, _, _, _, _, _)
\* the insertion loop of split(): the i-th t value gets id idc + i
SplitInsert(mutations, ts, i, currSplits, currSvgChars, idc) ==
  IF i > Len(ts) THEN mutations
  ELSE LET t == ts[i]
           svgChar == currSvgChars[SortedIndex(currSplits, t) + 1]
           mutation == [id |-> idc + i, t |-> t, svgChar |-> svgChar]
           insertionIdx == SortedIndex(Ts(mutations), t)
       IN  SplitInsert(InsertAt(mutations, insertionIdx, mutation),
                       ts, i + 1, currSplits, currSvgChars, idc)

\* split() without its closing loop
ForceCloseToLine_Skipped(mutations) == mutations

\* the closing loop of split(): a closepath that is not last becomes a line
ForceCloseToLine(mutations) ==
  [i \in 1..Len(mutations) |->
     IF i < Len(mutations) /\ mutations[i].svgChar = "Z"
       THEN [mutations[i] EXCEPT !.svgChar = "L"]
       ELSE mutations[i]]

\* CommandStateMutator.split(ts): the new mutation list
Split(c, ts, idc) ==
  LET SvgChars(mutations) == [i \in 1..Len(mutations) |-> mutations[i].svgChar]
  IN
  IF Len(ts) = 0 \/ c.backingCommand.svgChar = "M"
    THEN c.mutations
    ELSE ForceCloseToLine(
           SplitInsert(c.mutations, ts, 1, Ts(c.mutations), SvgChars(c.mutations), idc))

\* the number of ids split(ts) draws from _.uniqueId()
SplitIds(c, ts) ==
  IF Len(ts) = 0 \/ c.backingCommand.svgChar = "M" THEN 0 ELSE Len(ts)

\* splitAtIndex() handing its t values to split() without interpolating them
SplitAtIndex_NoLerp(c, splitIdx, ts, idc) ==
  Build(c.backingCommand, c.transforms, Split(c, ts, idc), c.minT, c.maxT)

\* c.mutate().splitAtIndex(splitIdx, ts).build(); ts holds k for t = k / TScale
SplitAtIndex(c, splitIdx, ts, idc) ==
  LET tempSplits == TempSplits(c)
      startSplit == tempSplits[splitIdx + 1]
      endSplit   == tempSplits[splitIdx + 2]
      abs        == [i \in 1..Len(ts) |-> Lerp(startSplit, endSplit, ts[i])]
  IN  Build(c.backingCommand, c.transforms, Split(c, abs, idc), c.minT, c.maxT)

\* every t value of ts interpolates onto the grid
SplitAtIndexExact(c, splitIdx, ts) ==
  LET tempSplits == TempSplits(c)
  IN  \A i \in 1..Len(ts) :
        LerpExact(tempSplits[splitIdx + 1], tempSplits[splitIdx + 2], ts[i])

\* c.mutate().splitInHalfAtIndex(splitIdx).build(); findTimeByDistance is the
\* identity of a straight segment
SplitInHalfAtIndex(c, splitIdx, idc) ==
  LET tempSplits == TempSplits(c)
      distance == Lerp(tempSplits[splitIdx + 1], tempSplits[splitIdx + 2], HalfScale)
  IN  Build(c.backingCommand, c.transforms, Split(c, <<distance>>, idc), c.minT, c.maxT)

SplitInHalfExact(c, splitIdx) ==
  LET tempSplits == TempSplits(c)
  IN  LerpExact(tempSplits[splitIdx + 1], tempSplits[splitIdx + 2], HalfScale)

\* unsplitAtIndex() removing the mutation after splitIdx
UnsplitAtIndex_OffByOne(c, splitIdx) ==
  Build(c.backingCommand, c.transforms, RemoveAt(c.mutations, splitIdx + 1), c.minT, c.maxT)

\* c.mutate().unsplitAtIndex(splitIdx).build()
UnsplitAtIndex(c, splitIdx) ==
  Build(c.backingCommand, c.transforms, RemoveAt(c.mutations, splitIdx), c.minT, c.maxT)

\* c.mutate().convertAtIndex(splitIdx, svgChar).build()
ConvertAtIndex(c, splitIdx, svgChar) ==
  Build(c.backingCommand, c.transforms,
        [c.mutations EXCEPT ![splitIdx + 1].svgChar = svgChar],
        c.minT, c.maxT)

\* unconvertSubpath() that makes the last mutation of a Close a Line as well
UnconvertSubpath_ForcesLast(c) ==
  Build(c.backingCommand, c.transforms,
        [i \in 1..Len(c.mutations) |->
           [c.mutations[i] EXCEPT !.svgChar =
              IF c.backingCommand.svgChar = "Z" THEN "L" ELSE c.backingCommand.svgChar]],
        c.minT, c.maxT)

\* c.mutate().unconvertSubpath().build()
UnconvertSubpath(c) ==
  LET \* the mutation list unconvertSubpath() leaves
      UnconvertMutations ==
        LET backingSvgChar == c.backingCommand.svgChar
        IN  [i \in 1..Len(c.mutations) |->
               [c.mutations[i] EXCEPT !.svgChar =
                  IF backingSvgChar = "Z" /\ i # Len(c.mutations) THEN "L"
                  ELSE backingSvgChar]]
  IN
  Build(c.backingCommand, c.transforms, UnconvertMutations, c.minT, c.maxT)

\* c.mutate().forkLeft(splitIdx).build()
ForkLeft(c, splitIdx) ==
  Build(c.backingCommand, c.transforms, SubSeq(c.mutations, 1, splitIdx + 1),
        c.minT, c.mutations[splitIdx + 1].t)

\* c.mutate().forkRight(splitIdx).build()
ForkRight(c, splitIdx) ==
  Build(c.backingCommand, c.transforms, SubSeq(c.mutations, splitIdx + 2, Len(c.mutations)),
        c.mutations[splitIdx + 1].t, c.maxT)

\* fork() whose forkLeft() cuts the list of the CommandState itself, so that
\* forkRight() starts from the left half
Fork_Shared(c, splitIdx) ==
  [left |-> ForkLeft(c, splitIdx),
   right |-> ForkRight(ForkLeft(c, splitIdx), splitIdx)]

\* CommandState.fork(splitIdx): each half starts from its own mutate() of c
Fork(c, splitIdx) ==
  [left |-> ForkLeft(c, splitIdx), right |-> ForkRight(c, splitIdx)]

RECURSIVE MergeInsert_SkipsConflicts(_, _, _)
\* the loop of merge() leaving out a mutation whose id is in the list already
MergeInsert_SkipsConflicts(mutations, otherMutations, i) ==
  IF i > Len(otherMutations) THEN mutations
  ELSE MergeInsert_SkipsConflicts(
         IF \E k \in 1..Len(mutations) : mutations[k].id = otherMutations[i].id
           THEN mutations
           ELSE InsertAt(mutations, SortedIndex(Ts(mutations), otherMutations[i].t),
                         otherMutations[i]),
         otherMutations, i + 1)

RECURSIVE MergeInsert(_, _, _)
\* the loop of merge(): each mutation of the other state goes to its sorted place
MergeInsert(mutations, otherMutations, i) ==
  IF i > Len(otherMutations) THEN mutations
  ELSE MergeInsert(
         InsertAt(mutations, SortedIndex(Ts(mutations), otherMutations[i].t),
                  otherMutations[i]),
         otherMutations, i + 1)

\* c.mutate().merge(o).build()
Merge(c, o) ==
  Build(c.backingCommand, c.transforms, MergeInsert(c.mutations, o.mutations, 1),
        Min(c.minT, o.minT), Max(c.maxT, o.maxT))

\* c.mutate().setTransforms(transforms).build(): the list becomes the one
\* flattened matrix and the calculator is rebuilt from the transformed command
SetTransforms(c, transforms) ==
  Build(c.backingCommand, <<Flatten(transforms)>>, c.mutations, c.minT, c.maxT)

\* c.mutate().addTransforms(transforms).build()
AddTransforms(c, transforms) == SetTransforms(c, transforms \o c.transforms)

\* revert() without the reset of the transforms
Revert_KeepsTransforms(c) ==
  Build(c.backingCommand, c.transforms,
        <<[id |-> c.mutations[Len(c.mutations)].id,
           t |-> c.maxT,
           svgChar |-> c.backingCommand.svgChar]>>,
        c.minT, c.maxT)

\* c.mutate().revert().build(); defined when there is a last mutation
Revert(c) ==
  Build(c.backingCommand, <<IdentityMatrix>>,
        <<[id |-> c.mutations[Len(c.mutations)].id,
           t |-> c.maxT,
           svgChar |-> c.backingCommand.svgChar]>>,
        c.minT, c.maxT)


RECURSIVE SumBelow(_, _, _)
\* _.chain(mutations).map(m => m.t < t ? 1 : 0).sum() from mutation i on
SumBelow(mutations, t, i) ==
  IF i > Len(mutations) THEN 0
  ELSE (IF mutations[i].t < t THEN 1 ELSE 0) + SumBelow(mutations, t, i + 1)

\* CommandState.project(point), raw the t of calculator.project(point): the
\* splitIdx and the remapped t
Project(c, raw) ==
  LET \* a quotient num / den; a den of 0 is the NaN that arithmetic on undefined gives
      Quotient(num, den) == [num |-> num, den |-> den]
  IN
  LET splitIdx == SumBelow(c.mutations, raw, 1)
      tempSplits == TempSplits(c)
      startSplit == tempSplits[splitIdx + 1]
  IN  IF splitIdx + 2 > Len(tempSplits)
        THEN [splitIdx |-> splitIdx, t |-> Quotient(0, 0)]
        ELSE LET endSplit == tempSplits[splitIdx + 2]
             IN  [splitIdx |-> splitIdx,
                  t |-> IF startSplit = endSplit
                          THEN Quotient(0, 1)
                          ELSE Quotient(raw - startSplit, endSplit - startSplit)]

----------------------------------------------------------------------------
(* SubPathState and the forest helpers of SubPathState.ts *)

\* new SubPathState(commandStates) with the id the constructor drew
NewSubPathState(commandStates, id) ==
  [commandStates |-> commandStates,
   isReversed    |-> FALSE,
   shiftOffset   |-> 0,
   id            |-> id,
   splitSubPaths |-> <<>>]

\* SubPathState.isSplit()
IsSplit(sps) == Len(sps.splitSubPaths) > 0

\* mutate().setSplitSubPaths(children).build(): a node that is given children
\* becomes internal and holds no commands of its own
SetSplitSubPaths(sps, children) ==
  [sps EXCEPT !.splitSubPaths = children,
              !.commandStates = IF Len(children) > 0 THEN <<>> ELSE @]

\* mutate().setCommandStates(commandStates).build()
SetCommandStates(sps, commandStates) ==
  [sps EXCEPT !.commandStates = commandStates]

\* mutate().setCommandState(cm, cmIdx).build()
SetCommandState(sps, cm, cmIdx) ==
  [sps EXCEPT !.commandStates[cmIdx + 1] = cm]

\* mutate().setShiftOffset(shiftOffset).build()
SetShiftOffset(sps, shiftOffset) ==
  [sps EXCEPT !.shiftOffset = shiftOffset]

\* mutate().reverse().build()
Reverse(sps) ==
  [sps EXCEPT !.isReversed = ~@]

\* mutate().setId(id).build()
SetId(sps, id) ==
  [sps EXCEPT !.id = id]

\* mutate().revert().build(): the split tree is cleared, every owned
\* CommandState is reverted, and the readout is the initial one again
RevertSubPathState(sps) ==
  [sps EXCEPT !.commandStates = [i \in 1..Len(@) |-> Revert(@[i])],
              !.isReversed = FALSE,
              !.shiftOffset = 0,
              !.splitSubPaths = <<>>]

RECURSIVE FlattenSubPathStates(_)
\* flattenSubPathStates(map): the leaves in document order
FlattenSubPathStates(states) ==
  IF Len(states) = 0 THEN <<>>
  ELSE (IF IsSplit(Head(states))
          THEN FlattenSubPathStates(Head(states).splitSubPaths)
          ELSE <<Head(states)>>)
       \o FlattenSubPathStates(Tail(states))

\* countSubPathStates(map)
CountSubPathStates(map) == Len(FlattenSubPathStates(map))

\* cmsIdx is the index of a leaf
ValidCmsIdx(map, cmsIdx) == cmsIdx \in 0..(CountSubPathStates(map) - 1)

\* findSubPathState(map, cmsIdx)
FindSubPathState(map, cmsIdx) == FlattenSubPathStates(map)[cmsIdx + 1]

RECURSIVE FlattenCommands(_)
\* the commands of a list of CommandStates, in storage order
FlattenCommands(commandStates) ==
  IF Len(commandStates) = 0 THEN <<>>
  ELSE Head(commandStates).commands \o FlattenCommands(Tail(commandStates))

\* _.sum(sps.commandStates.map(cm => cm.getCommands().length))
NumCommands(sps) == Len(FlattenCommands(sps.commandStates))

\* _.flatMap(sps.toSubPaths(), subPath => subPath.getCommands()):
\* the commands of a leaf as they are read out
VisibleCommands(sps) ==
  LET \* the commands read out backwards: a Move to the end of the last command,
      \* then every command but the first from last to first, its points swapped
      ReversedCommands(cmds) ==
        LET n == Len(cmds)
        IN  IF n = 0 THEN cmds
            ELSE <<[cmds[1] EXCEPT !.end = cmds[n].end]>>
                   \o [k \in 1..(n - 1) |->
                         [cmds[n - k + 1] EXCEPT !.start = cmds[n - k + 1].end,
                                                 !.end = cmds[n - k + 1].start]]
  IN
  LET \* the commands read out with the rotation of shiftOffset: the readout starts
      \* with a Move to the end of command shiftOffset, goes on to the last command
      \* and wraps to the commands 1..shiftOffset
      ShiftedCommands(cmds, shiftOffset) ==
        LET n == Len(cmds)
            s == IF n <= 1 THEN 0 ELSE shiftOffset % (n - 1)
        IN  IF s = 0 THEN cmds
            ELSE <<[cmds[s + 1] EXCEPT !.svgChar = "M", !.start = cmds[1].start,
                                       !.isSplit = FALSE]>>
                   \o SubSeq(cmds, s + 2, n) \o SubSeq(cmds, 2, s + 1)
  IN
  LET shifted == ShiftedCommands(FlattenCommands(sps.commandStates), sps.shiftOffset)
  IN  IF sps.isReversed THEN ReversedCommands(shifted) ELSE shifted

----------------------------------------------------------------------------
(* PathMutator *)

RECURSIVE SetStateFn(_, _, _, _)
\* setStateFn over a list of nodes; counter is the number of leaves before it
SetStateFn(states, state, cmsIdx, counter) ==
  IF Len(states) = 0 THEN <<>>
  ELSE LET node == Head(states)
           newNode ==
             IF ~IsSplit(node)
               THEN (IF counter = cmsIdx THEN state ELSE node)
               ELSE SetSplitSubPaths(node,
                      SetStateFn(node.splitSubPaths, state, cmsIdx, counter))
       IN  <<newNode>>
             \o SetStateFn(Tail(states), state, cmsIdx,
                           counter + CountSubPathStates(<<node>>))

\* PathMutator.setSubPathState(state, cmsIdx)
SetSubPathState(map, state, cmsIdx) == SetStateFn(map, state, cmsIdx, 0)

\* subIdx is a visible index whose entry of subPathOrdering names a leaf
ResolvesSubIdx(map, ordering, subIdx) ==
  /\ subIdx \in 0..(Len(ordering) - 1)
  /\ ValidCmsIdx(map, ordering[subIdx + 1])

RECURSIVE ScanCommandStates(_, _, _, _)
\* the scan of findCommandStateInfo: the first CommandState whose commands
\* reach past cmdIdx, or cmIdx = -1 when there is none (the throw)
ScanCommandStates(subPathCms, cmdIdx, counter, cmIdx) ==
  IF cmIdx >= Len(subPathCms) THEN [cmIdx |-> -1, splitIdx |-> -1]
  ELSE LET len == Len(subPathCms[cmIdx + 1].commands)
       IN  IF counter + len > cmdIdx
             THEN [cmIdx |-> cmIdx, splitIdx |-> cmdIdx - counter]
             ELSE ScanCommandStates(subPathCms, cmdIdx, counter + len, cmIdx + 1)

\* the command index findCommandStateInfo scans for
AdjustedCmdIdx(sps, cmdIdx) ==
  LET numCommandsInSubPath == NumCommands(sps)
      unreversed == IF cmdIdx # 0 /\ sps.isReversed
                      THEN numCommandsInSubPath - cmdIdx ELSE cmdIdx
      shifted == unreversed + sps.shiftOffset
  IN  IF shifted >= numCommandsInSubPath
        THEN shifted - (numCommandsInSubPath - 1) ELSE shifted

\* PathMutator.findCommandStateInfo(subIdx, cmdIdx), for a subIdx that resolves
FindCommandStateInfo(map, ordering, subIdx, cmdIdx) ==
  LET cmsIdx == ordering[subIdx + 1]
      sps == FindSubPathState(map, cmsIdx)
      found == ScanCommandStates(sps.commandStates, AdjustedCmdIdx(sps, cmdIdx), 0, 0)
  IN  [cmsIdx |-> cmsIdx, cmIdx |-> found.cmIdx, splitIdx |-> found.splitIdx]

\* findCommandStateInfo throws
FindCommandStateInfoThrows(map, ordering, subIdx, cmdIdx) ==
  \/ ~ResolvesSubIdx(map, ordering, subIdx)
  \/ FindCommandStateInfo(map, ordering, subIdx, cmdIdx).cmIdx = -1

\* reverseSubPath() that also resets the shift offset of the sub path
ReverseSubPath_ResetsShift(map, ordering, subIdx) ==
  LET cmsIdx == ordering[subIdx + 1]
  IN  SetSubPathState(map,
                      SetShiftOffset(Reverse(FindSubPathState(map, cmsIdx)), 0),
                      cmsIdx)

\* PathMutator.reverseSubPath(subIdx)
ReverseSubPath(map, ordering, subIdx) ==
  LET cmsIdx == ordering[subIdx + 1]
  IN  SetSubPathState(map, Reverse(FindSubPathState(map, cmsIdx)), cmsIdx)

\* PathMutator.shift(subIdx, calcOffsetFn) with the offset function of
\* shiftSubPathBack (back = TRUE) or shiftSubPathForward
Shift(map, ordering, subIdx, numShifts, back) ==
  LET \* MathUtil.floorMod(num, maxNum)
      FloorMod(num, maxNum) == ((num % maxNum) + maxNum) % maxNum
  IN
  LET \* the offset shiftSubPathForward(subIdx, numShifts) hands to shift()
      ShiftForwardOffset(sps, o, n) ==
        IF sps.isReversed THEN FloorMod(o - numShifts, n - 1)
        ELSE (o + numShifts) % (n - 1)
  IN
  LET \* the offset shiftSubPathBack(subIdx, numShifts) hands to shift()
      ShiftBackOffset(sps, o, n) ==
        IF sps.isReversed THEN (o + numShifts) % (n - 1)
        ELSE FloorMod(o - numShifts, n - 1)
  IN
  LET cmsIdx == ordering[subIdx + 1]
      sps == FindSubPathState(map, cmsIdx)
      numCommandsInSubPath == NumCommands(sps)
      offset == IF back
                  THEN ShiftBackOffset(sps, sps.shiftOffset, numCommandsInSubPath)
                  ELSE ShiftForwardOffset(sps, sps.shiftOffset, numCommandsInSubPath)
  IN  IF numCommandsInSubPath <= 1 THEN map
      ELSE SetSubPathState(map, SetShiftOffset(sps, offset), cmsIdx)

\* PathMutator.shiftSubPathBack(subIdx, numShifts)
ShiftSubPathBack(map, ordering, subIdx, numShifts) ==
  Shift(map, ordering, subIdx, numShifts, TRUE)

\* PathMutator.shiftSubPathForward(subIdx, numShifts)
ShiftSubPathForward(map, ordering, subIdx, numShifts) ==
  Shift(map, ordering, subIdx, numShifts, FALSE)

\* PathMutator.getUpdatedShiftOffsetsAfterSplit(cmsIdx, cmIdx, numSplits)
GetUpdatedShiftOffsetsAfterSplit(map, cmsIdx, cmIdx, numSplits) ==
  LET sps == FindSubPathState(map, cmsIdx)
  IN  IF sps.shiftOffset # 0 /\ cmIdx <= sps.shiftOffset
        THEN sps.shiftOffset + numSplits
        ELSE sps.shiftOffset

\* splitCommand() without its check of ts.length
SplitCommandThrows_NoTsCheck(map, ordering, subIdx, cmdIdx, ts) ==
  FindCommandStateInfoThrows(map, ordering, subIdx, cmdIdx)

\* splitCommand(subIdx, cmdIdx, ...ts) throws: no t value was given, or the
\* lookup of the command throws
SplitCommandThrows(map, ordering, subIdx, cmdIdx, ts) ==
  \/ Len(ts) = 0
  \/ FindCommandStateInfoThrows(map, ordering, subIdx, cmdIdx)

\* PathMutator.splitCommand(subIdx, cmdIdx, ...ts), ts not empty
SplitCommand(map, ordering, subIdx, cmdIdx, ts, idc) ==
  LET info == FindCommandStateInfo(map, ordering, subIdx, cmdIdx)
      sps == FindSubPathState(map, info.cmsIdx)
      targetCm == sps.commandStates[info.cmIdx + 1]
      shiftOffset == GetUpdatedShiftOffsetsAfterSplit(map, info.cmsIdx, info.cmIdx, Len(ts))
  IN  SetSubPathState(map,
        SetCommandState(SetShiftOffset(sps, shiftOffset),
                        SplitAtIndex(targetCm, info.splitIdx, ts, idc), info.cmIdx),
        info.cmsIdx)

\* PathMutator.splitCommandInHalf(subIdx, cmdIdx)
SplitCommandInHalf(map, ordering, subIdx, cmdIdx, idc) ==
  LET info == FindCommandStateInfo(map, ordering, subIdx, cmdIdx)
      sps == FindSubPathState(map, info.cmsIdx)
      targetCm == sps.commandStates[info.cmIdx + 1]
      shiftOffset == GetUpdatedShiftOffsetsAfterSplit(map, info.cmsIdx, info.cmIdx, 1)
  IN  SetSubPathState(map,
        SetCommandState(SetShiftOffset(sps, shiftOffset),
                        SplitInHalfAtIndex(targetCm, info.splitIdx, idc), info.cmIdx),
        info.cmsIdx)

\* the mutation index unsplitCommand hands to unsplitAtIndex
UnsplitIdx(sps, splitIdx) == IF sps.isReversed THEN splitIdx - 1 ELSE splitIdx

\* PathMutator.unsplitCommand(subIdx, cmdIdx)
UnsplitCommand(map, ordering, subIdx, cmdIdx) ==
  LET info == FindCommandStateInfo(map, ordering, subIdx, cmdIdx)
      sps == FindSubPathState(map, info.cmsIdx)
      targetCm == sps.commandStates[info.cmIdx + 1]
      unsplit == SetCommandState(sps,
                   UnsplitAtIndex(targetCm, UnsplitIdx(sps, info.splitIdx)), info.cmIdx)
      shiftOffset == unsplit.shiftOffset
  IN  SetSubPathState(map,
        IF shiftOffset # 0 /\ info.cmIdx <= shiftOffset
          THEN SetShiftOffset(unsplit, shiftOffset - 1)
          ELSE unsplit,
        info.cmsIdx)

\* PathMutator.convertCommand(subIdx, cmdIdx, svgChar)
ConvertCommand(map, ordering, subIdx, cmdIdx, svgChar) ==
  LET info == FindCommandStateInfo(map, ordering, subIdx, cmdIdx)
      sps == FindSubPathState(map, info.cmsIdx)
      targetCm == sps.commandStates[info.cmIdx + 1]
  IN  SetSubPathState(map,
        SetCommandState(sps, ConvertAtIndex(targetCm, info.splitIdx, svgChar), info.cmIdx),
        info.cmsIdx)

\* PathMutator.unconvertSubPath(subIdx)
UnconvertSubPath(map, ordering, subIdx) ==
  LET cmsIdx == ordering[subIdx + 1]
      sps == FindSubPathState(map, cmsIdx)
      commandStates ==
        [i \in 1..Len(sps.commandStates) |->
           IF i = 1 THEN sps.commandStates[i]
           ELSE UnconvertSubpath(sps.commandStates[i])]
  IN  SetSubPathState(map, SetCommandStates(sps, commandStates), cmsIdx)

\* moveSubPath() that inserts the entry at toSubIdx before it removes the
\* one at fromSubIdx
MoveSubPath_InsertFirst(ordering, fromSubIdx, toSubIdx) ==
  RemoveAt(InsertAt(ordering, SpliceStart(ordering, toSubIdx),
                    ordering[SpliceStart(ordering, fromSubIdx) + 1]),
           fromSubIdx)

\* PathMutator.moveSubPath(fromSubIdx, toSubIdx): the new subPathOrdering
MoveSubPath(ordering, fromSubIdx, toSubIdx) ==
  LET removed == ordering[SpliceStart(ordering, fromSubIdx) + 1]
      rest == RemoveAt(ordering, fromSubIdx)
  IN  InsertAt(rest, SpliceStart(rest, toSubIdx), removed)

\* PathMutator.splitStrokedSubPath(subIdx, cmdIdx): the new forest
SplitStrokedSubPath(map, ordering, subIdx, cmdIdx, idc) ==
  LET \* the CommandStates of the two leaves splitStrokedSubPath cuts sps into
      StrokedHalves(sps, cmIdx, splitIdx) ==
        LET commandStates == sps.commandStates
            target == commandStates[cmIdx + 1]
            splitPoint == target.commands[splitIdx + 1].end
            forked == Fork(target, splitIdx)
            seam == NewCommandState(NewCommand(idc + 1, "M", splitPoint, splitPoint))
        IN  [start |-> SubSeq(commandStates, 1, cmIdx) \o <<forked.left>>,
             end   |-> <<seam>>
                         \o (IF Len(forked.right.commands) > 0 THEN <<forked.right>> ELSE <<>>)
                         \o SubSeq(commandStates, cmIdx + 2, Len(commandStates))]
  IN
  LET info == FindCommandStateInfo(map, ordering, subIdx, cmdIdx)
      sps == FindSubPathState(map, info.cmsIdx)
      halves == StrokedHalves(sps, info.cmIdx, info.splitIdx)
      splitSubPaths ==
        <<SetId(SetSplitSubPaths(SetCommandStates(sps, halves.start), <<>>), idc + 2),
          SetId(SetSplitSubPaths(SetCommandStates(sps, halves.end), <<>>), idc + 3)>>
  IN  SetSubPathState(map, SetSplitSubPaths(sps, splitSubPaths), info.cmsIdx)

\* splitStrokedSubPath() without the push onto subPathOrdering
SplitStrokedOrdering_NoPush(ordering) == ordering

\* this.subPathOrdering.push(this.subPathOrdering.length)
SplitStrokedOrdering(ordering) == Append(ordering, Len(ordering))

RECURSIVE RecurseFn(_, _, _, _)
\* recurseFn of unsplitSubPath from child i of p on: the node whose child is
\* the cmsIdx-th leaf counted; the counter counts the leaves below split nodes
RecurseFn(p, i, cmsIdx, counter) ==
  IF i > Len(p.splitSubPaths) THEN [found |-> FALSE, counter |-> counter]
  ELSE LET state == p.splitSubPaths[i]
       IN  IF ~IsSplit(state)
             THEN (IF counter = cmsIdx
                     THEN [found |-> TRUE, counter |-> counter + 1, parent |-> p]
                     ELSE RecurseFn(p, i + 1, cmsIdx, counter + 1))
             ELSE LET r == RecurseFn(state, 1, cmsIdx, counter)
                  IN  IF r.found THEN r ELSE RecurseFn(p, i + 1, cmsIdx, r.counter)

\* updatedParentNode without setSplitSubPaths([]): p keeps its two children
UpdatedParentNode_KeepsChildren(p) ==
  LET css1 == p.splitSubPaths[1].commandStates
      css2 == p.splitSubPaths[2].commandStates
      head == SubSeq(css1, 1, Len(css1) - 1)
      tail == SubSeq(css2, 3, Len(css2))
      cs1 == css1[Len(css1)]
      cs2 == css2[2]
      middle == IF cs1.backingCommand.id = cs2.backingCommand.id
                  THEN <<Merge(cs1, cs2)>>
                  ELSE <<cs1, cs2>>
  IN  SetCommandStates(p, head \o middle \o tail)

\* updatedParentNode: p as a leaf again, the two CommandStates at the seam
\* merged when they have the same backing command
UpdatedParentNode(p) ==
  LET css1 == p.splitSubPaths[1].commandStates
      css2 == p.splitSubPaths[2].commandStates
      head == SubSeq(css1, 1, Len(css1) - 1)
      tail == SubSeq(css2, 3, Len(css2))
      cs1 == css1[Len(css1)]
      cs2 == css2[2]
      middle == IF cs1.backingCommand.id = cs2.backingCommand.id
                  THEN <<Merge(cs1, cs2)>>
                  ELSE <<cs1, cs2>>
  IN  SetSplitSubPaths(SetCommandStates(p, head \o middle \o tail), <<>>)

RECURSIVE UpdateParentFn(_, _)
\* updateParentFn: the node with the id of updatedParentNode is replaced
UpdateParentFn(states, updatedParentNode) ==
  [i \in 1..Len(states) |->
     IF states[i].id = updatedParentNode.id THEN updatedParentNode
     ELSE [states[i] EXCEPT !.splitSubPaths = UpdateParentFn(@, updatedParentNode)]]

\* unsplitSubPath throws: the first pass over the roots reads the id of an
\* updatedParentNode that the first root did not set
UnsplitSubPathThrows(map, ordering, subIdx) ==
  LET \* the reading of the two children throws: cs1 or cs2 is undefined
      UnsplitMergeThrows(p) ==
        \/ Len(p.splitSubPaths[1].commandStates) = 0
        \/ Len(p.splitSubPaths[2].commandStates) < 2
  IN
  \/ subIdx \notin 0..(Len(ordering) - 1)
  \/ Len(map) = 0
  \/ LET r == RecurseFn(map[1], 1, ordering[subIdx + 1], 0)
     IN  ~r.found \/ UnsplitMergeThrows(r.parent)

\* PathMutator.unsplitSubPath(subIdx): the new forest
UnsplitSubPath(map, ordering, subIdx) ==
  LET r == RecurseFn(map[1], 1, ordering[subIdx + 1], 0)
  IN  UpdateParentFn(map, UpdatedParentNode(r.parent))

\* the new subPathOrdering of unsplitSubPath(subIdx)
UnsplitSubPathOrdering(ordering, subIdx) ==
  LET cmsIdx == ordering[subIdx + 1]
      spliced == RemoveAt(ordering, subIdx)
  IN  [i \in 1..Len(spliced) |->
         IF cmsIdx < spliced[i] THEN spliced[i] - 1 ELSE spliced[i]]

\* addCollapsingSubPath reads the last command of the last leaf
AddCollapsingSubPathThrows(map) ==
  \/ CountSubPathStates(map) = 0
  \/ Len(VisibleCommands(FindSubPathState(map, CountSubPathStates(map) - 1))) = 0

\* PathMutator.addCollapsingSubPath(point, numCommands): the new forest
AddCollapsingSubPath(map, point, numCommands, idc) ==
  LET numSubPathsBeforeAdd == CountSubPathStates(map)
      prevCmds == VisibleCommands(FindSubPathState(map, numSubPathsBeforeAdd - 1))
      prevCmd == prevCmds[Len(prevCmds)]
      cms == [i \in 1..Max(numCommands, 1) |->
                IF i = 1 THEN NewCommandState(NewCommand(idc + 1, "M", prevCmd.end, point))
                ELSE NewCommandState(NewCommand(idc + i, "L", point, point))]
  IN  Append(map, NewSubPathState(cms, idc + Len(cms) + 1))

\* arr.splice(start, deleteCount)
SpliceOut(arr, start, deleteCount) ==
  LET from == SpliceStart(arr, start)
      count == Max(0, Min(deleteCount, Len(arr) - from))
  IN  SubSeq(arr, 1, from) \o SubSeq(arr, from + count + 1, Len(arr))

\* toSubIdxFn(cmsIdx), or -1 for the throw
ToSubIdxFn(ordering, cmsIdx) ==
  IF \E i \in 1..Len(ordering) : ordering[i] = cmsIdx
    THEN (CHOOSE i \in 1..Len(ordering) :
            /\ ordering[i] = cmsIdx
            /\ \A j \in 1..(i - 1) : ordering[j] # cmsIdx) - 1
    ELSE -1

\* deleteCollapsingSubPaths throws 'Invalid cmsIdx'
DeleteCollapsingSubPathsThrows(map, ordering) ==
  \E cmsIdx \in 0..(CountSubPathStates(map) - 1) : ToSubIdxFn(ordering, cmsIdx) = -1

\* the roots deleteCollapsingSubPaths leaves
DeleteCollapsingSubPaths(map, num) ==
  SpliceOut(map, CountSubPathStates(map) - num, num)

RECURSIVE RebuildOrdering(_, _, _)
\* the loop that refills subPathOrdering from cmsIdxToSubIdxMap
RebuildOrdering(cmsIdxToSubIdxMap, subIdx, numSubPathsBeforeDelete) ==
  IF subIdx >= numSubPathsBeforeDelete THEN <<>>
  ELSE (IF \E i \in 1..Len(cmsIdxToSubIdxMap) : cmsIdxToSubIdxMap[i] = subIdx
          THEN <<(CHOOSE i \in 1..Len(cmsIdxToSubIdxMap) :
                    /\ cmsIdxToSubIdxMap[i] = subIdx
                    /\ \A j \in 1..(i - 1) : cmsIdxToSubIdxMap[j] # subIdx) - 1>>
          ELSE <<>>)
       \o RebuildOrdering(cmsIdxToSubIdxMap, subIdx + 1, numSubPathsBeforeDelete)

\* the subPathOrdering deleteCollapsingSubPaths leaves
DeleteCollapsingOrdering(map, ordering, num) ==
  LET numSubPathsBeforeDelete == CountSubPathStates(map)
      cmsIdxToSubIdxMap ==
        SpliceOut([i \in 1..numSubPathsBeforeDelete |-> ToSubIdxFn(ordering, i - 1)],
                  numSubPathsBeforeDelete - num, num)
  IN  RebuildOrdering(cmsIdxToSubIdxMap, 0, numSubPathsBeforeDelete)

\* PathMutator.revert() throws
RevertPathThrows(map, ordering, num) ==
  LET \* revert() of the node reads the last mutation of each owned CommandState
      RevertSubPathStateThrows(sps) ==
        \E i \in 1..Len(sps.commandStates) : Len(sps.commandStates[i].mutations) = 0
  IN
  \/ DeleteCollapsingSubPathsThrows(map, ordering)
  \/ \E i \in 1..Len(DeleteCollapsingSubPaths(map, num)) :
       RevertSubPathStateThrows(DeleteCollapsingSubPaths(map, num)[i])

\* PathMutator.revert(): the new forest
RevertPath(map, num) ==
  LET roots == DeleteCollapsingSubPaths(map, num)
  IN  [i \in 1..Len(roots) |-> RevertSubPathState(roots[i])]

\* the subPathOrdering revert() leaves
RevertOrdering(map, ordering, num) ==
  [i \in 1..Len(DeleteCollapsingOrdering(map, ordering, num)) |-> i - 1]

RECURSIVE FlatMap(_)
\* _.flatMap(lists, cmds => cmds)
FlatMap(lists) ==
  IF Len(lists) = 0 THEN <<>> ELSE Head(lists) \o FlatMap(Tail(lists))

\* the flattened, reordered commands of build() before their points are relinked
ReorderedCommands(map, ordering) ==
  LET subPathStates == FlattenSubPathStates(map)
      subPathCmds == [i \in 1..Len(subPathStates) |-> VisibleCommands(subPathStates[i])]
  IN  FlatMap([i \in 1..Len(ordering) |-> subPathCmds[ordering[i] + 1]])

\* the forEach of build() linking only the commands that have no start yet
RelinkCommands_KeepsStored(reorderedCommands) ==
  [i \in 1..Len(reorderedCommands) |->
     IF i = 1
       THEN (IF reorderedCommands[i].start # NoPoint
               THEN [reorderedCommands[i] EXCEPT !.start = NoPoint]
               ELSE reorderedCommands[i])
       ELSE (IF reorderedCommands[i].start # NoPoint
               THEN reorderedCommands[i]
               ELSE [reorderedCommands[i] EXCEPT !.start = reorderedCommands[i - 1].end])]

\* the forEach of build(): the start of the first command is cleared, the start
\* of every other command is the end of the command before it
RelinkCommands(reorderedCommands) ==
  [i \in 1..Len(reorderedCommands) |->
     IF i = 1
       THEN (IF reorderedCommands[i].start # NoPoint
               THEN [reorderedCommands[i] EXCEPT !.start = NoPoint]
               ELSE reorderedCommands[i])
       ELSE [reorderedCommands[i] EXCEPT !.start = reorderedCommands[i - 1].end]]

\* PathMutator.build(): the commands of the new path
BuildPath(map, ordering) == RelinkCommands(ReorderedCommands(map, ordering))

----------------------------------------------------------------------------
(* The CommandState specification: one CommandState under its own operations *)

\* ---------------------------------------------------------------------
\* PointCalculator: the calculator of a command whose points coincide
\* ---------------------------------------------------------------------

\* the kinds of command (SvgChar)
SvgCharKinds == {"M", "L", "Q", "C", "Z"}

\* no PointCalculator is in use
NoCalculator == [svgChar |-> "M", point |-> NoPoint]

\* PointCalculator.split(t1, t2)
PointCalculatorSplit(calc, t1, t2) == [svgChar |-> calc.svgChar, point |-> calc.point]

\* PointCalculator.convert(svgChar)
PointCalculatorConvert(calc, svgChar) == [svgChar |-> svgChar, point |-> calc.point]

\* toCommand() that builds a Move as it builds a Line
PointCalculatorToCommand_MovesToo(calc) ==
  CASE calc.svgChar \in {"M", "L", "Z"} ->
         [error |-> FALSE, svgChar |-> calc.svgChar, points |-> <<calc.point, calc.point>>]
    [] calc.svgChar = "Q" ->
         [error |-> FALSE, svgChar |-> calc.svgChar,
          points |-> <<calc.point, calc.point, calc.point>>]
    [] calc.svgChar = "C" ->
         [error |-> FALSE, svgChar |-> calc.svgChar,
          points |-> <<calc.point, calc.point, calc.point, calc.point>>]
    [] OTHER -> [error |-> TRUE, svgChar |-> calc.svgChar, points |-> <<>>]

\* PointCalculator.toCommand(): the kind and the points handed to
\* CommandBuilder, or the throw of the default case
PointCalculatorToCommand(calc) ==
  CASE calc.svgChar \in {"L", "Z"} ->
         [error |-> FALSE, svgChar |-> calc.svgChar, points |-> <<calc.point, calc.point>>]
    [] calc.svgChar = "Q" ->
         [error |-> FALSE, svgChar |-> calc.svgChar,
          points |-> <<calc.point, calc.point, calc.point>>]
    [] calc.svgChar = "C" ->
         [error |-> FALSE, svgChar |-> calc.svgChar,
          points |-> <<calc.point, calc.point, calc.point, calc.point>>]
    [] OTHER -> [error |-> TRUE, svgChar |-> calc.svgChar, points |-> <<>>]

\* ---------------------------------------------------------------------
\* ProjectsEffects: create$, update$ and delete$
\* ---------------------------------------------------------------------

\* the actions that write to Firestore, one effect each
WriteActionTypes == {"Create", "Update", "Delete"}

\* a freshly constructed ProjectsEffects: no write was started, and the
\* switchMap of no effect is subscribed to an inner observable. writes[w] is
\* the w-th write; inner[type] is the write whose observable the switchMap of
\* that effect is subscribed to (0: none)
NoEffects == [writes |-> <<>>, inner |-> [type \in WriteActionTypes |-> 0]]

\* switchMap(action => from(write)) on a new action: the write is started, the
\* inner observable subscribed to before is unsubscribed from, the new one is
\* subscribed to. The write unsubscribed from stays under way
SwitchMap(e, type) ==
  [writes |-> Append(e.writes, [type |-> type, completed |-> FALSE, successes |-> 0]),
   inner |-> [e.inner EXCEPT ![type] = Len(e.writes) + 1]]

\* the promise of write w resolves: from() emits and completes, and
\* map(() => new Success()) runs if the switchMap is still subscribed to it
WriteCompletes(e, w) ==
  LET type == e.writes[w].type
      subscribed == e.inner[type] = w
  IN  [writes |-> [e.writes EXCEPT
                     ![w] = [type |-> type, completed |-> TRUE,
                             successes |-> IF subscribed THEN @.successes + 1
                                                         ELSE @.successes]],
       inner |-> IF subscribed THEN [e.inner EXCEPT ![type] = 0] ELSE e.inner]

\* the kinds convertAtIndex is given
ConvertKinds == {"L", "C", "Z"}

\* the commands a CommandState is constructed around: one of each kind with
\* distinct end points, and a line whose points coincide
BackingCommands ==
  {NewCommand(1, k, Pt(0, TScale), Pt(1, TScale)) : k \in {"M", "L", "C", "Z"}}
    \cup {NewCommand(1, "L", Pt(1, TScale), Pt(1, TScale))}

\* what a snapshot holds: the arrays and numbers of a CommandState or PathState
NoContent ==
  [mutations |-> <<>>, minT |-> 0, maxT |-> 0,
   subPathStateMap |-> <<>>, subPathOrdering |-> <<>>, numCollapsingSubPaths |-> 0]

\* no snapshot is followed
NoSource == [kind |-> "none", shares |-> {}, now |-> NoContent, created |-> NoContent]

\* no CommandState: fork has not run yet
NoCommandState == [backingCommand |-> NewCommand(0, "M", NoPoint, NoPoint),
                   commands |-> <<>>, mutations |-> <<>>,
                   transforms |-> <<IdentityMatrix>>, minT |-> 0, maxT |-> 0]

SplitIdxs(c) == 0..(Len(c.mutations) - 1)

\* one more CommandState operation; the path is not part of this specification
CSStep ==
  /\ steps < MaxCsSteps
  /\ steps' = steps + 1
  /\ UNCHANGED <<subPathStateMap, subPathOrdering, numCollapsingSubPaths, source, calculator,
                 effects>>

CSSplitAtIndex ==
  LET \* the sequences of 1..MaxTs values k, each t = k / TScale
      TsInputs == UNION {[1..n -> 0..TScale] : n \in 1..MaxTs}
  IN
  \E splitIdx \in SplitIdxs(cs), ts \in TsInputs :
    /\ CSStep
    /\ SplitAtIndexExact(cs, splitIdx, ts)
    /\ Len(cs.mutations) + Len(ts) <= MaxMutations
    /\ cs' = SplitAtIndex(cs, splitIdx, ts, idCounter)
    /\ idCounter' = idCounter + SplitIds(cs, ts)
    /\ last' = [op |-> "splitAtIndex", splitIdx |-> splitIdx, ts |-> ts]
    /\ UNCHANGED other

CSSplitInHalfAtIndex ==
  \E splitIdx \in SplitIdxs(cs) :
    /\ CSStep
    /\ SplitInHalfExact(cs, splitIdx)
    /\ Len(cs.mutations) + 1 <= MaxMutations
    /\ cs' = SplitInHalfAtIndex(cs, splitIdx, idCounter)
    /\ idCounter' = idCounter + SplitIds(cs, <<0>>)
    /\ last' = [op |-> "splitInHalfAtIndex", splitIdx |-> splitIdx]
    /\ UNCHANGED other

CSUnsplitAtIndex ==
  \E splitIdx \in SplitIdxs(cs) :
    /\ CSStep
    /\ cs' = UnsplitAtIndex(cs, splitIdx)
    /\ last' = [op |-> "unsplitAtIndex", splitIdx |-> splitIdx]
    /\ UNCHANGED <<other, idCounter>>

CSConvertAtIndex ==
  \E splitIdx \in SplitIdxs(cs), svgChar \in ConvertKinds :
    /\ CSStep
    /\ cs' = ConvertAtIndex(cs, splitIdx, svgChar)
    /\ last' = [op |-> "convertAtIndex", splitIdx |-> splitIdx, svgChar |-> svgChar]
    /\ UNCHANGED <<other, idCounter>>

CSUnconvertSubpath ==
  /\ CSStep
  /\ cs' = UnconvertSubpath(cs)
  /\ last' = [op |-> "unconvertSubpath"]
  /\ UNCHANGED <<other, idCounter>>

\* fork(splitIdx): the edit goes on with one half, the other half is kept
CSFork ==
  \E splitIdx \in SplitIdxs(cs), side \in {"left", "right"} :
    /\ CSStep
    /\ cs' = Fork(cs, splitIdx)[side]
    /\ other' = Fork(cs, splitIdx)[IF side = "left" THEN "right" ELSE "left"]
    /\ last' = [op |-> "fork", splitIdx |-> splitIdx, side |-> side]
    /\ UNCHANGED idCounter

\* project(point) reads the CommandState and returns splitIdx and t
CSProject ==
  LET \* the raw t values calculator.project() reports: any t of the backing
      \* command, and 1/2 from a PointCalculator
      RawTs(c) ==
        IF c.backingCommand.start = c.backingCommand.end /\ c.backingCommand.svgChar # "M"
          THEN {HalfScale}
          ELSE 0..TScale
  IN
  \E raw \in RawTs(cs) :
    /\ CSStep
    /\ last' = [op |-> "project", raw |-> raw, result |-> Project(cs, raw)]
    /\ UNCHANGED <<cs, other, idCounter>>

CSMerge ==
  /\ CSStep
  /\ other # NoCommandState
  /\ Len(cs.mutations) + Len(other.mutations) <= MaxMutations
  /\ cs' = Merge(cs, other)
  /\ last' = [op |-> "merge"]
  /\ UNCHANGED <<other, idCounter>>

\* revert() reads the last mutation: with none left it throws
CSRevert ==
  /\ CSStep
  /\ Len(cs.mutations) > 0
  /\ cs' = Revert(cs)
  /\ last' = [op |-> "revert"]
  /\ UNCHANGED <<other, idCounter>>

InitCS ==
  /\ cs \in {NewCommandState(b) : b \in BackingCommands}
  /\ other = NoCommandState
  /\ subPathStateMap = <<>>
  /\ subPathOrdering = <<>>
  /\ numCollapsingSubPaths = 0
  /\ idCounter = 1
  /\ steps = 0
  /\ source = NoSource
  /\ calculator = NoCalculator
  /\ effects = NoEffects
  /\ last = [op |-> "new"]

NextCS ==
  \/ CSSplitAtIndex
  \/ CSSplitInHalfAtIndex
  \/ CSUnsplitAtIndex
  \/ CSConvertAtIndex
  \/ CSUnconvertSubpath
  \/ CSFork
  \/ CSMerge
  \/ CSRevert
  \/ CSProject

SpecCS == InitCS /\ [][NextCS]_vars

\* the transforms handed to addTransforms() and setTransforms()
TransformInputs ==
  LET \* the affine matrices: a cyclic group of rotations, k standing for k turns
      Matrices == 0..MaxMatrix
  IN
  {<<matrix>> : matrix \in Matrices}

CSAddTransforms ==
  \E transforms \in TransformInputs :
    /\ CSStep
    /\ cs' = AddTransforms(cs, transforms)
    /\ last' = [op |-> "addTransforms", transforms |-> transforms]
    /\ UNCHANGED <<other, idCounter>>

CSSetTransforms ==
  \E transforms \in TransformInputs :
    /\ CSStep
    /\ cs' = SetTransforms(cs, transforms)
    /\ last' = [op |-> "setTransforms", transforms |-> transforms]
    /\ UNCHANGED <<other, idCounter>>

\* a CommandState cut in half, and the two halves of its fork
HalvedCommandState(b) == SplitInHalfAtIndex(NewCommandState(b), 0, 1)

\* the specification of a CommandState under its transforms as well: it starts
\* fresh, cut in half, or as one half of a fork
InitTransform ==
  /\ \E b \in BackingCommands, from \in {"new", "split", "left", "right"} :
       /\ cs = CASE from = "new" -> NewCommandState(b)
                  [] from = "split" -> HalvedCommandState(b)
                  [] from = "left" -> Fork(HalvedCommandState(b), 0).left
                  [] from = "right" -> Fork(HalvedCommandState(b), 0).right
       /\ other = CASE from = "left" -> Fork(HalvedCommandState(b), 0).right
                     [] from = "right" -> Fork(HalvedCommandState(b), 0).left
                     [] OTHER -> NoCommandState
       /\ idCounter = IF from = "new" THEN 1 ELSE 1 + SplitIds(NewCommandState(b), <<0>>)
  /\ subPathStateMap = <<>>
  /\ subPathOrdering = <<>>
  /\ numCollapsingSubPaths = 0
  /\ steps = 0
  /\ source = NoSource
  /\ calculator = NoCalculator
  /\ effects = NoEffects
  /\ last = [op |-> "new"]

NextTransform ==
  \/ CSSplitInHalfAtIndex
  \/ CSUnsplitAtIndex
  \/ CSConvertAtIndex
  \/ CSFork
  \/ CSMerge
  \/ CSRevert
  \/ CSAddTransforms
  \/ CSSetTransforms

SpecTransform == InitTransform /\ [][NextTransform]_vars

\* the specification of a Close-backed CommandState under the operations that
\* split it and set the kinds of its mutations
InitClose ==
  /\ InitCS
  /\ cs.backingCommand.svgChar = "Z"

NextClose ==
  \/ CSSplitAtIndex
  \/ CSSplitInHalfAtIndex
  \/ CSUnsplitAtIndex
  \/ CSConvertAtIndex
  \/ CSUnconvertSubpath

SpecClose == InitClose /\ [][NextClose]_vars

----------------------------------------------------------------------------
(* The PathMutator specification: one PathMutator under its operations *)

\* the path the mutator is constructed from: M L L and M L, every command
\* starting where the one before it ends
InitialCommands ==
  [i \in 1..5 |->
     NewCommand(i, IF i \in {1, 4} THEN "M" ELSE "L",
                IF i = 1 THEN NoPoint ELSE Pt(i - 1, TScale), Pt(i, TScale))]

\* the point collapsing sub paths collapse to
CollapsingPoint == Pt(0, TScale)

SubIdxs == 0..(Len(subPathOrdering) - 1)

\* the command indices of the sub path at subIdx
CmdIdxs(subIdx) ==
  IF ResolvesSubIdx(subPathStateMap, subPathOrdering, subIdx)
    THEN 0..(NumCommands(FindSubPathState(subPathStateMap,
                                          subPathOrdering[subIdx + 1])) - 1)
    ELSE {0}

\* the CommandState and the leaf that (subIdx, cmdIdx) resolves to
TargetInfo(subIdx, cmdIdx) ==
  FindCommandStateInfo(subPathStateMap, subPathOrdering, subIdx, cmdIdx)
TargetSps(subIdx, cmdIdx) ==
  FindSubPathState(subPathStateMap, TargetInfo(subIdx, cmdIdx).cmsIdx)
TargetCm(subIdx, cmdIdx) ==
  TargetSps(subIdx, cmdIdx).commandStates[TargetInfo(subIdx, cmdIdx).cmIdx + 1]

\* one more PathMutator operation; no CommandState is edited on its own
PathStep ==
  /\ steps < MaxSteps
  /\ steps' = steps + 1
  /\ UNCHANGED <<cs, other, source, calculator, effects>>

\* the operation threw: the mutator is as it was
Thrown(op) ==
  /\ last' = op @@ [error |-> TRUE]
  /\ UNCHANGED <<subPathStateMap, subPathOrdering, numCollapsingSubPaths, idCounter>>

DoReverseSubPath ==
  \E subIdx \in SubIdxs :
    LET op == [op |-> "reverseSubPath", subIdx |-> subIdx]
    IN  /\ PathStep
        /\ IF ~ResolvesSubIdx(subPathStateMap, subPathOrdering, subIdx)
             THEN Thrown(op)
             ELSE /\ subPathStateMap' = ReverseSubPath(subPathStateMap, subPathOrdering, subIdx)
                  /\ last' = op @@ [error |-> FALSE]
                  /\ UNCHANGED <<subPathOrdering, numCollapsingSubPaths, idCounter>>

DoShiftSubPathBack ==
  \E subIdx \in SubIdxs, numShifts \in 1..MaxShifts :
    LET op == [op |-> "shiftSubPathBack", subIdx |-> subIdx, numShifts |-> numShifts]
    IN  /\ PathStep
        /\ IF ~ResolvesSubIdx(subPathStateMap, subPathOrdering, subIdx)
             THEN Thrown(op)
             ELSE /\ subPathStateMap' =
                       ShiftSubPathBack(subPathStateMap, subPathOrdering, subIdx, numShifts)
                  /\ last' = op @@ [error |-> FALSE]
                  /\ UNCHANGED <<subPathOrdering, numCollapsingSubPaths, idCounter>>

DoShiftSubPathForward ==
  \E subIdx \in SubIdxs, numShifts \in 1..MaxShifts :
    LET op == [op |-> "shiftSubPathForward", subIdx |-> subIdx, numShifts |-> numShifts]
    IN  /\ PathStep
        /\ IF ~ResolvesSubIdx(subPathStateMap, subPathOrdering, subIdx)
             THEN Thrown(op)
             ELSE /\ subPathStateMap' =
                       ShiftSubPathForward(subPathStateMap, subPathOrdering, subIdx, numShifts)
                  /\ last' = op @@ [error |-> FALSE]
                  /\ UNCHANGED <<subPathOrdering, numCollapsingSubPaths, idCounter>>

DoSplitCommand ==
  LET \* the t values splitCommand is given, as k for t = k / TScale: none, or
      \* 0 and 1/2
      PathTsInputs == {<<>>, <<0, HalfScale>>}
  IN
  \E subIdx \in SubIdxs, ts \in PathTsInputs :
    \E cmdIdx \in CmdIdxs(subIdx) :
      LET op == [op |-> "splitCommand", subIdx |-> subIdx, cmdIdx |-> cmdIdx, ts |-> ts]
      IN  /\ PathStep
          /\ IF SplitCommandThrows(subPathStateMap, subPathOrdering, subIdx, cmdIdx, ts)
               THEN Thrown(op)
               ELSE /\ SplitAtIndexExact(TargetCm(subIdx, cmdIdx),
                                         TargetInfo(subIdx, cmdIdx).splitIdx, ts)
                    /\ Len(TargetCm(subIdx, cmdIdx).mutations) + Len(ts) <= MaxMutations
                    /\ subPathStateMap' =
                         SplitCommand(subPathStateMap, subPathOrdering, subIdx, cmdIdx, ts,
                                      idCounter)
                    /\ idCounter' = idCounter + SplitIds(TargetCm(subIdx, cmdIdx), ts)
                    /\ last' = op @@ [error |-> FALSE]
                    /\ UNCHANGED <<subPathOrdering, numCollapsingSubPaths>>

DoSplitCommandInHalf ==
  \E subIdx \in SubIdxs :
    \E cmdIdx \in CmdIdxs(subIdx) :
      LET op == [op |-> "splitCommandInHalf", subIdx |-> subIdx, cmdIdx |-> cmdIdx]
      IN  /\ PathStep
          /\ IF FindCommandStateInfoThrows(subPathStateMap, subPathOrdering, subIdx, cmdIdx)
               THEN Thrown(op)
               ELSE /\ SplitInHalfExact(TargetCm(subIdx, cmdIdx),
                                        TargetInfo(subIdx, cmdIdx).splitIdx)
                    /\ Len(TargetCm(subIdx, cmdIdx).mutations) + 1 <= MaxMutations
                    /\ subPathStateMap' =
                         SplitCommandInHalf(subPathStateMap, subPathOrdering, subIdx, cmdIdx,
                                            idCounter)
                    /\ idCounter' = idCounter + SplitIds(TargetCm(subIdx, cmdIdx), <<0>>)
                    /\ last' = op @@ [error |-> FALSE]
                    /\ UNCHANGED <<subPathOrdering, numCollapsingSubPaths>>

DoUnsplitCommand ==
  LET \* the command at (subIdx, cmdIdx) ends at a split point: unsplitCommand is
      \* called on such commands only, and removes a mutation that is not the last
      IsSplitPoint(subIdx, cmdIdx) ==
        UnsplitIdx(TargetSps(subIdx, cmdIdx), TargetInfo(subIdx, cmdIdx).splitIdx)
          \in 0..(Len(TargetCm(subIdx, cmdIdx).mutations) - 2)
  IN
  \E subIdx \in SubIdxs :
    \E cmdIdx \in CmdIdxs(subIdx) :
      LET op == [op |-> "unsplitCommand", subIdx |-> subIdx, cmdIdx |-> cmdIdx]
      IN  /\ PathStep
          /\ IF FindCommandStateInfoThrows(subPathStateMap, subPathOrdering, subIdx, cmdIdx)
               THEN Thrown(op)
               ELSE /\ IsSplitPoint(subIdx, cmdIdx)
                    /\ subPathStateMap' =
                         UnsplitCommand(subPathStateMap, subPathOrdering, subIdx, cmdIdx)
                    /\ last' = op @@ [error |-> FALSE]
                    /\ UNCHANGED <<subPathOrdering, numCollapsingSubPaths, idCounter>>

DoConvertCommand ==
  LET \* the kinds convertCommand is given
      PathConvertKinds == {"C"}
  IN
  \E subIdx \in SubIdxs, svgChar \in PathConvertKinds :
    \E cmdIdx \in CmdIdxs(subIdx) :
      LET op == [op |-> "convertCommand", subIdx |-> subIdx, cmdIdx |-> cmdIdx,
                 svgChar |-> svgChar]
      IN  /\ PathStep
          /\ IF FindCommandStateInfoThrows(subPathStateMap, subPathOrdering, subIdx, cmdIdx)
               THEN Thrown(op)
               ELSE /\ subPathStateMap' =
                         ConvertCommand(subPathStateMap, subPathOrdering, subIdx, cmdIdx,
                                        svgChar)
                    /\ last' = op @@ [error |-> FALSE]
                    /\ UNCHANGED <<subPathOrdering, numCollapsingSubPaths, idCounter>>

DoUnconvertSubPath ==
  \E subIdx \in SubIdxs :
    LET op == [op |-> "unconvertSubPath", subIdx |-> subIdx]
    IN  /\ PathStep
        /\ IF ~ResolvesSubIdx(subPathStateMap, subPathOrdering, subIdx)
             THEN Thrown(op)
             ELSE /\ subPathStateMap' =
                       UnconvertSubPath(subPathStateMap, subPathOrdering, subIdx)
                  /\ last' = op @@ [error |-> FALSE]
                  /\ UNCHANGED <<subPathOrdering, numCollapsingSubPaths, idCounter>>

DoMoveSubPath ==
  \E fromSubIdx \in SubIdxs, toSubIdx \in SubIdxs :
    /\ fromSubIdx # toSubIdx
    /\ PathStep
    /\ subPathOrdering' = MoveSubPath(subPathOrdering, fromSubIdx, toSubIdx)
    /\ last' = [op |-> "moveSubPath", fromSubIdx |-> fromSubIdx, toSubIdx |-> toSubIdx,
                error |-> FALSE]
    /\ UNCHANGED <<subPathStateMap, numCollapsingSubPaths, idCounter>>

DoSplitStrokedSubPath ==
  \E subIdx \in SubIdxs :
    \E cmdIdx \in CmdIdxs(subIdx) :
      LET op == [op |-> "splitStrokedSubPath", subIdx |-> subIdx, cmdIdx |-> cmdIdx]
      IN  /\ PathStep
          /\ IF FindCommandStateInfoThrows(subPathStateMap, subPathOrdering, subIdx, cmdIdx)
               THEN Thrown(op)
               ELSE /\ subPathStateMap' =
                         SplitStrokedSubPath(subPathStateMap, subPathOrdering, subIdx, cmdIdx,
                                             idCounter)
                    /\ subPathOrdering' = SplitStrokedOrdering(subPathOrdering)
                    /\ idCounter' = idCounter + 3
                    /\ last' = op @@ [error |-> FALSE]
                    /\ UNCHANGED numCollapsingSubPaths

DoUnsplitSubPath ==
  \E subIdx \in SubIdxs :
    LET op == [op |-> "unsplitSubPath", subIdx |-> subIdx]
    IN  /\ PathStep
        /\ IF UnsplitSubPathThrows(subPathStateMap, subPathOrdering, subIdx)
             THEN Thrown(op)
             ELSE /\ subPathStateMap' = UnsplitSubPath(subPathStateMap, subPathOrdering, subIdx)
                  /\ subPathOrdering' = UnsplitSubPathOrdering(subPathOrdering, subIdx)
                  /\ last' = op @@ [error |-> FALSE]
                  /\ UNCHANGED <<numCollapsingSubPaths, idCounter>>

DoAddCollapsingSubPath ==
  \E numCommands \in 2..MaxCollapsingCommands :
    LET op == [op |-> "addCollapsingSubPath", numCommands |-> numCommands]
    IN  /\ PathStep
        /\ IF AddCollapsingSubPathThrows(subPathStateMap)
             THEN Thrown(op)
             ELSE /\ subPathStateMap' =
                       AddCollapsingSubPath(subPathStateMap, CollapsingPoint, numCommands,
                                            idCounter)
                  /\ subPathOrdering' =
                       Append(subPathOrdering, CountSubPathStates(subPathStateMap))
                  /\ numCollapsingSubPaths' = numCollapsingSubPaths + 1
                  /\ idCounter' = idCounter + numCommands + 1
                  /\ last' = op @@ [error |-> FALSE]

DoDeleteCollapsingSubPaths ==
  LET op == [op |-> "deleteCollapsingSubPaths"]
  IN  /\ PathStep
      /\ IF DeleteCollapsingSubPathsThrows(subPathStateMap, subPathOrdering)
           THEN Thrown(op)
           ELSE /\ subPathStateMap' =
                     DeleteCollapsingSubPaths(subPathStateMap, numCollapsingSubPaths)
                /\ subPathOrdering' =
                     DeleteCollapsingOrdering(subPathStateMap, subPathOrdering,
                                              numCollapsingSubPaths)
                /\ numCollapsingSubPaths' = 0
                /\ last' = op @@ [error |-> FALSE]
                /\ UNCHANGED idCounter

DoRevert ==
  LET op == [op |-> "revert"]
  IN  /\ PathStep
      /\ IF RevertPathThrows(subPathStateMap, subPathOrdering, numCollapsingSubPaths)
           THEN Thrown(op)
           ELSE /\ subPathStateMap' = RevertPath(subPathStateMap, numCollapsingSubPaths)
                /\ subPathOrdering' =
                     RevertOrdering(subPathStateMap, subPathOrdering, numCollapsingSubPaths)
                /\ numCollapsingSubPaths' = 0
                /\ last' = op @@ [error |-> FALSE]
                /\ UNCHANGED idCounter

\* build() leaves the mutator as it is and returns the commands of the path
DoBuild ==
  LET \* build() throws: an entry of subPathOrdering names no leaf
      BuildPathThrows(map, ordering) ==
        \E i \in 1..Len(ordering) : ~ValidCmsIdx(map, ordering[i])
  IN
  LET op == [op |-> "build"]
  IN  /\ PathStep
      /\ IF BuildPathThrows(subPathStateMap, subPathOrdering)
           THEN Thrown(op)
           ELSE /\ last' = op @@ [error |-> FALSE,
                                  commands |-> BuildPath(subPathStateMap, subPathOrdering)]
                /\ UNCHANGED <<subPathStateMap, subPathOrdering, numCollapsingSubPaths,
                               idCounter>>

\* the path as parsed: two leaves in document order, the ids 1..7 drawn
FreshPathState ==
  LET \* new PathState(commands): one leaf per sub path, one CommandState per command
      InitialSubPathStateMap ==
        <<NewSubPathState([i \in 1..3 |-> NewCommandState(InitialCommands[i])], 6),
          NewSubPathState([i \in 1..2 |-> NewCommandState(InitialCommands[i + 3])], 7)>>
  IN
  [subPathStateMap |-> InitialSubPathStateMap, subPathOrdering |-> <<0, 1>>, idCounter |-> 7]

\* the path an earlier mutator built with splitCommandInHalf(0, 1) and
\* shiftSubPathBack(0, 1)
EditedPathState ==
  LET ps == FreshPathState
      split == SplitCommandInHalf(ps.subPathStateMap, ps.subPathOrdering, 0, 1, ps.idCounter)
  IN  [subPathStateMap |-> ShiftSubPathBack(split, ps.subPathOrdering, 0, 1),
       subPathOrdering |-> ps.subPathOrdering,
       idCounter |-> ps.idCounter + 1]

\* the path an earlier mutator built with splitStrokedSubPath(0, 1)
StrokedPathState ==
  LET ps == FreshPathState
  IN  [subPathStateMap |->
         SplitStrokedSubPath(ps.subPathStateMap, ps.subPathOrdering, 0, 1, ps.idCounter),
       subPathOrdering |-> SplitStrokedOrdering(ps.subPathOrdering),
       idCounter |-> ps.idCounter + 3]

\* the PathStates a mutator is constructed from
InitialPathStates ==
  LET \* the path an earlier mutator built with reverseSubPath(0)
      ReversedPathState ==
        LET ps == FreshPathState
        IN  [ps EXCEPT !.subPathStateMap = ReverseSubPath(ps.subPathStateMap, ps.subPathOrdering, 0)]
  IN
  {FreshPathState, EditedPathState, ReversedPathState, StrokedPathState}

\* new PathMutator(ps)
Init ==
  /\ cs = NoCommandState
  /\ other = NoCommandState
  /\ \E ps \in InitialPathStates :
        /\ subPathStateMap = ps.subPathStateMap
        /\ subPathOrdering = ps.subPathOrdering
        /\ idCounter = ps.idCounter
  /\ numCollapsingSubPaths = 0
  /\ steps = 0
  /\ source = NoSource
  /\ calculator = NoCalculator
  /\ effects = NoEffects
  /\ last = [op |-> "new", error |-> FALSE]

Next ==
  \/ DoReverseSubPath
  \/ DoShiftSubPathBack
  \/ DoShiftSubPathForward
  \/ DoSplitCommand
  \/ DoSplitCommandInHalf
  \/ DoUnsplitCommand
  \/ DoConvertCommand
  \/ DoUnconvertSubPath
  \/ DoMoveSubPath
  \/ DoSplitStrokedSubPath
  \/ DoUnsplitSubPath
  \/ DoAddCollapsingSubPath
  \/ DoDeleteCollapsingSubPaths
  \/ DoRevert
  \/ DoBuild

Spec == Init /\ [][Next]_vars

\* the specification of a PathMutator that only splits and unsplits sub paths
NextStroked ==
  \/ DoSplitStrokedSubPath
  \/ DoUnsplitSubPath

SpecStroked == Init /\ [][NextStroked]_vars

\* the specification of a PathMutator that shifts, splits and unsplits, on a
\* path that earlier mutators built with these operations
InitShift ==
  /\ Init
  /\ \E ps \in {FreshPathState, EditedPathState, StrokedPathState} :
       /\ subPathStateMap = ps.subPathStateMap
       /\ subPathOrdering = ps.subPathOrdering

NextShift ==
  \/ DoShiftSubPathBack
  \/ DoShiftSubPathForward
  \/ DoSplitCommand
  \/ DoSplitCommandInHalf
  \/ DoUnsplitCommand
  \/ DoSplitStrokedSubPath

SpecShift == InitShift /\ [][NextShift]_vars

\* the path an earlier mutator built with addCollapsingSubPath(point, 2)
CollapsingPathState ==
  LET ps == FreshPathState
  IN  [subPathStateMap |->
         AddCollapsingSubPath(ps.subPathStateMap, CollapsingPoint, 2, ps.idCounter),
       subPathOrdering |->
         Append(ps.subPathOrdering, CountSubPathStates(ps.subPathStateMap)),
       idCounter |-> ps.idCounter + 3]

\* new PathMutator(ps) of a path with or without a collapsing sub path
InitCollapsing ==
  /\ cs = NoCommandState
  /\ other = NoCommandState
  /\ \E ps \in InitialPathStates \cup {CollapsingPathState} :
        /\ subPathStateMap = ps.subPathStateMap
        /\ subPathOrdering = ps.subPathOrdering
        /\ idCounter = ps.idCounter
        /\ numCollapsingSubPaths = IF ps = CollapsingPathState THEN 1 ELSE 0
  /\ steps = 0
  /\ source = NoSource
  /\ calculator = NoCalculator
  /\ effects = NoEffects
  /\ last = [op |-> "new", error |-> FALSE]

\* the specification of a PathMutator that adds, moves and deletes sub paths
NextCollapsing ==
  \/ DoAddCollapsingSubPath
  \/ DoMoveSubPath
  \/ DoDeleteCollapsingSubPaths

SpecCollapsing == InitCollapsing /\ [][NextCollapsing]_vars

----------------------------------------------------------------------------
(* Snapshots: a mutator, the snapshot it was created from, and the arrays  *)
(* the two hold. source.shares names the arrays of the snapshot that are   *)
(* the very arrays the mutator works on; a write in place to such an array *)
(* shows in the snapshot, an assignment of a new array ends the sharing.   *)

\* the arrays and numbers of a CommandState
CommandStateContent(c) ==
  [NoContent EXCEPT !.mutations = c.mutations, !.minT = c.minT, !.maxT = c.maxT]

\* CommandState.mutate(): the arrays of c the mutator works on in place. It is
\* handed mutations.map(m => _.clone(m)), a new array of new objects, and
\* copies of the numbers
MutateShares(c) == {}

\* new PathMutator(ps) that keeps ps.subPathOrdering instead of a slice() of it
PathMutatorShares_NoSlice(ps) == {"subPathOrdering"}

\* new PathMutator(ps): the arrays of ps the mutator works on in place. It is
\* handed ps.subPathStateMap.map(s => s.clone()), a new array of new nodes,
\* and ps.subPathOrdering.slice(), a new array
PathMutatorShares(ps) == {}

\* the snapshot after the mutator wrote the arrays of `written` in place
WrittenThrough(src, written) ==
  [src EXCEPT !.now =
     [name \in DOMAIN src.now |->
        IF name \in src.shares /\ name \in DOMAIN written
          THEN written[name] ELSE src.now[name]]]

\* the snapshot after the mutator assigned new arrays to its fields `names`
Reassigned(src, names) == [src EXCEPT !.shares = src.shares \ names]

\* one more operation of the mutator
SnapStep ==
  /\ steps < MaxSteps
  /\ steps' = steps + 1
  /\ UNCHANGED <<calculator, effects>>

OfCommandState ==
  /\ source.kind = "CommandState"
  /\ UNCHANGED <<subPathStateMap, subPathOrdering, numCollapsingSubPaths>>

OfPathState ==
  /\ source.kind = "PathState"
  /\ UNCHANGED <<cs, other>>

\* split() splices this.mutations
SnapSplitInHalfAtIndex ==
  \E splitIdx \in SplitIdxs(cs) :
    /\ SnapStep
    /\ OfCommandState
    /\ SplitInHalfExact(cs, splitIdx)
    /\ Len(cs.mutations) + 1 <= MaxMutations
    /\ cs' = SplitInHalfAtIndex(cs, splitIdx, idCounter)
    /\ idCounter' = idCounter + SplitIds(cs, <<0>>)
    /\ source' = WrittenThrough(source, [mutations |-> cs'.mutations])
    /\ last' = [op |-> "splitInHalfAtIndex", error |-> FALSE]
    /\ UNCHANGED other

\* unsplitAtIndex() splices this.mutations
SnapUnsplitAtIndex ==
  \E splitIdx \in SplitIdxs(cs) :
    /\ SnapStep
    /\ OfCommandState
    /\ cs' = UnsplitAtIndex(cs, splitIdx)
    /\ source' = WrittenThrough(source, [mutations |-> cs'.mutations])
    /\ last' = [op |-> "unsplitAtIndex", error |-> FALSE]
    /\ UNCHANGED <<other, idCounter>>

\* convertAtIndex() stores a new mutation into this.mutations
SnapConvertAtIndex ==
  \E splitIdx \in SplitIdxs(cs), svgChar \in ConvertKinds :
    /\ SnapStep
    /\ OfCommandState
    /\ cs' = ConvertAtIndex(cs, splitIdx, svgChar)
    /\ source' = WrittenThrough(source, [mutations |-> cs'.mutations])
    /\ last' = [op |-> "convertAtIndex", error |-> FALSE]
    /\ UNCHANGED <<other, idCounter>>

\* forkLeft() and forkRight() assign a slice to this.mutations
SnapFork ==
  \E splitIdx \in SplitIdxs(cs), side \in {"left", "right"} :
    /\ SnapStep
    /\ OfCommandState
    /\ cs' = Fork(cs, splitIdx)[side]
    /\ source' = Reassigned(source, {"mutations"})
    /\ last' = [op |-> "fork", error |-> FALSE]
    /\ UNCHANGED <<other, idCounter>>

\* revert() assigns a new array to this.mutations
SnapRevert ==
  /\ SnapStep
  /\ OfCommandState
  /\ Len(cs.mutations) > 0
  /\ cs' = Revert(cs)
  /\ source' = Reassigned(source, {"mutations"})
  /\ last' = [op |-> "revert", error |-> FALSE]
  /\ UNCHANGED <<other, idCounter>>

\* build() of either mutator hands its arrays to the state it returns
SnapBuild ==
  /\ SnapStep
  /\ source.kind # "none"
  /\ last' = [op |-> "build", error |-> FALSE]
  /\ UNCHANGED <<cs, other, subPathStateMap, subPathOrdering, numCollapsingSubPaths,
                 idCounter, source>>

\* setSubPathState() stores into this.subPathStateMap the roots it rebuilt,
\* every split node with a new splitSubPaths array
SnapReverseSubPath ==
  \E subIdx \in SubIdxs :
    /\ SnapStep
    /\ OfPathState
    /\ ResolvesSubIdx(subPathStateMap, subPathOrdering, subIdx)
    /\ subPathStateMap' = ReverseSubPath(subPathStateMap, subPathOrdering, subIdx)
    /\ source' = Reassigned(WrittenThrough(source, [subPathStateMap |-> subPathStateMap']),
                            {"splitSubPaths"})
    /\ last' = [op |-> "reverseSubPath", error |-> FALSE]
    /\ UNCHANGED <<subPathOrdering, numCollapsingSubPaths, idCounter>>

SnapSplitCommandInHalf ==
  \E subIdx \in SubIdxs :
    \E cmdIdx \in CmdIdxs(subIdx) :
      /\ SnapStep
      /\ OfPathState
      /\ ~FindCommandStateInfoThrows(subPathStateMap, subPathOrdering, subIdx, cmdIdx)
      /\ SplitInHalfExact(TargetCm(subIdx, cmdIdx), TargetInfo(subIdx, cmdIdx).splitIdx)
      /\ Len(TargetCm(subIdx, cmdIdx).mutations) + 1 <= MaxMutations
      /\ subPathStateMap' =
           SplitCommandInHalf(subPathStateMap, subPathOrdering, subIdx, cmdIdx, idCounter)
      /\ idCounter' = idCounter + SplitIds(TargetCm(subIdx, cmdIdx), <<0>>)
      /\ source' = Reassigned(WrittenThrough(source, [subPathStateMap |-> subPathStateMap']),
                              {"splitSubPaths"})
      /\ last' = [op |-> "splitCommandInHalf", error |-> FALSE]
      /\ UNCHANGED <<subPathOrdering, numCollapsingSubPaths>>

\* moveSubPath() splices this.subPathOrdering
SnapMoveSubPath ==
  \E fromSubIdx \in SubIdxs, toSubIdx \in SubIdxs :
    /\ fromSubIdx # toSubIdx
    /\ SnapStep
    /\ OfPathState
    /\ subPathOrdering' = MoveSubPath(subPathOrdering, fromSubIdx, toSubIdx)
    /\ source' = WrittenThrough(source, [subPathOrdering |-> subPathOrdering'])
    /\ last' = [op |-> "moveSubPath", error |-> FALSE]
    /\ UNCHANGED <<subPathStateMap, numCollapsingSubPaths, idCounter>>

\* splitStrokedSubPath() goes through setSubPathState() and pushes onto
\* this.subPathOrdering
SnapSplitStrokedSubPath ==
  \E subIdx \in SubIdxs :
    \E cmdIdx \in CmdIdxs(subIdx) :
      /\ SnapStep
      /\ OfPathState
      /\ ~FindCommandStateInfoThrows(subPathStateMap, subPathOrdering, subIdx, cmdIdx)
      /\ subPathStateMap' =
           SplitStrokedSubPath(subPathStateMap, subPathOrdering, subIdx, cmdIdx, idCounter)
      /\ subPathOrdering' = SplitStrokedOrdering(subPathOrdering)
      /\ idCounter' = idCounter + 3
      /\ source' = Reassigned(
                     WrittenThrough(source, [subPathStateMap |-> subPathStateMap',
                                             subPathOrdering |-> subPathOrdering']),
                     {"splitSubPaths"})
      /\ last' = [op |-> "splitStrokedSubPath", error |-> FALSE]
      /\ UNCHANGED numCollapsingSubPaths

\* unsplitSubPath() stores the merged node into the array that held it, which
\* is this.subPathStateMap or the splitSubPaths array of a node, and splices
\* and rewrites this.subPathOrdering
SnapUnsplitSubPath ==
  LET \* the snapshot after unsplitSubPath() stored the merged node into the
      \* splitSubPaths array of its parent, an array below a root of the forest
      NestedWrittenThrough(src, map) ==
        IF "splitSubPaths" \notin src.shares THEN src
        ELSE [src EXCEPT !.now.subPathStateMap =
                [i \in 1..Len(src.now.subPathStateMap) |->
                   IF i <= Len(map) /\ map[i].id = src.now.subPathStateMap[i].id
                        /\ IsSplit(map[i])
                     THEN [src.now.subPathStateMap[i] EXCEPT
                             !.splitSubPaths = map[i].splitSubPaths]
                     ELSE src.now.subPathStateMap[i]]]
  IN
  \E subIdx \in SubIdxs :
    /\ SnapStep
    /\ OfPathState
    /\ ~UnsplitSubPathThrows(subPathStateMap, subPathOrdering, subIdx)
    /\ subPathStateMap' = UnsplitSubPath(subPathStateMap, subPathOrdering, subIdx)
    /\ subPathOrdering' = UnsplitSubPathOrdering(subPathOrdering, subIdx)
    /\ source' = NestedWrittenThrough(
                   WrittenThrough(source, [subPathStateMap |-> subPathStateMap',
                                           subPathOrdering |-> subPathOrdering']),
                   subPathStateMap')
    /\ last' = [op |-> "unsplitSubPath", error |-> FALSE]
    /\ UNCHANGED <<numCollapsingSubPaths, idCounter>>

\* addCollapsingSubPath() pushes onto both arrays
SnapAddCollapsingSubPath ==
  \E numCommands \in 2..MaxCollapsingCommands :
    /\ SnapStep
    /\ OfPathState
    /\ ~AddCollapsingSubPathThrows(subPathStateMap)
    /\ subPathStateMap' =
         AddCollapsingSubPath(subPathStateMap, CollapsingPoint, numCommands, idCounter)
    /\ subPathOrdering' = Append(subPathOrdering, CountSubPathStates(subPathStateMap))
    /\ numCollapsingSubPaths' = numCollapsingSubPaths + 1
    /\ idCounter' = idCounter + numCommands + 1
    /\ source' = WrittenThrough(source, [subPathStateMap |-> subPathStateMap',
                                         subPathOrdering |-> subPathOrdering'])
    /\ last' = [op |-> "addCollapsingSubPath", error |-> FALSE]

\* deleteCollapsingSubPaths() splices both arrays
SnapDeleteCollapsingSubPaths ==
  /\ SnapStep
  /\ OfPathState
  /\ ~DeleteCollapsingSubPathsThrows(subPathStateMap, subPathOrdering)
  /\ subPathStateMap' = DeleteCollapsingSubPaths(subPathStateMap, numCollapsingSubPaths)
  /\ subPathOrdering' =
       DeleteCollapsingOrdering(subPathStateMap, subPathOrdering, numCollapsingSubPaths)
  /\ numCollapsingSubPaths' = 0
  /\ source' = WrittenThrough(source, [subPathStateMap |-> subPathStateMap',
                                       subPathOrdering |-> subPathOrdering'])
  /\ last' = [op |-> "deleteCollapsingSubPaths", error |-> FALSE]
  /\ UNCHANGED idCounter

\* revert() stores the reverted roots and rewrites this.subPathOrdering
SnapRevertPath ==
  /\ SnapStep
  /\ OfPathState
  /\ ~RevertPathThrows(subPathStateMap, subPathOrdering, numCollapsingSubPaths)
  /\ subPathStateMap' = RevertPath(subPathStateMap, numCollapsingSubPaths)
  /\ subPathOrdering' =
       RevertOrdering(subPathStateMap, subPathOrdering, numCollapsingSubPaths)
  /\ numCollapsingSubPaths' = 0
  /\ source' = Reassigned(
                 WrittenThrough(source, [subPathStateMap |-> subPathStateMap',
                                         subPathOrdering |-> subPathOrdering']),
                 {"splitSubPaths"})
  /\ last' = [op |-> "revert", error |-> FALSE]
  /\ UNCHANGED idCounter

\* c.mutate() of a CommandState, or new PathMutator(ps) of a PathState
InitSnapshot ==
  LET \* the arrays and numbers of a PathState
      PathStateContent(ps) ==
        [NoContent EXCEPT !.subPathStateMap = ps.subPathStateMap,
                          !.subPathOrdering = ps.subPathOrdering]
  IN
  LET \* the path an earlier mutator built with splitStrokedSubPath(0, 1) and then
      \* splitStrokedSubPath(0, 0): a split node below a split root
      NestedPathState ==
        LET ps == StrokedPathState
        IN  [subPathStateMap |->
               SplitStrokedSubPath(ps.subPathStateMap, ps.subPathOrdering, 0, 0, ps.idCounter),
             subPathOrdering |-> SplitStrokedOrdering(ps.subPathOrdering),
             idCounter |-> ps.idCounter + 3]
  IN
  /\ steps = 0
  /\ last = [op |-> "new", error |-> FALSE]
  /\ \/ \E b \in BackingCommands, halved \in BOOLEAN :
          LET c == IF halved THEN HalvedCommandState(b) ELSE NewCommandState(b)
          IN
          /\ cs = c
          /\ other = NoCommandState
          /\ idCounter = IF halved THEN 1 + SplitIds(NewCommandState(b), <<0>>) ELSE 1
          /\ subPathStateMap = <<>>
          /\ subPathOrdering = <<>>
          /\ source = [kind |-> "CommandState",
                       shares |-> MutateShares(c),
                       now |-> CommandStateContent(c),
                       created |-> CommandStateContent(c)]
     \/ \E ps \in InitialPathStates \cup {NestedPathState} :
          /\ cs = NoCommandState
          /\ other = NoCommandState
          /\ idCounter = ps.idCounter
          /\ subPathStateMap = ps.subPathStateMap
          /\ subPathOrdering = ps.subPathOrdering
          /\ source = [kind |-> "PathState",
                       shares |-> PathMutatorShares(ps),
                       now |-> PathStateContent(ps),
                       created |-> PathStateContent(ps)]
  /\ numCollapsingSubPaths = 0
  /\ calculator = NoCalculator
  /\ effects = NoEffects

NextSnapshot ==
  \/ SnapSplitInHalfAtIndex
  \/ SnapUnsplitAtIndex
  \/ SnapConvertAtIndex
  \/ SnapFork
  \/ SnapRevert
  \/ SnapBuild
  \/ SnapReverseSubPath
  \/ SnapSplitCommandInHalf
  \/ SnapMoveSubPath
  \/ SnapSplitStrokedSubPath
  \/ SnapUnsplitSubPath
  \/ SnapAddCollapsingSubPath
  \/ SnapDeleteCollapsingSubPaths
  \/ SnapRevertPath

SpecSnapshot == InitSnapshot /\ [][NextSnapshot]_vars

\* ---------------------------------------------------------------------
\* The specification of a PointCalculator
\* ---------------------------------------------------------------------

\* one more call on the PointCalculator; no CommandState or path is involved
PointStep ==
  /\ steps < MaxCsSteps
  /\ steps' = steps + 1
  /\ UNCHANGED <<cs, other, subPathStateMap, subPathOrdering, numCollapsingSubPaths,
                 idCounter, source, effects>>

\* calculator = calculator.split(t1, t2)
PointSplit ==
  \E t1 \in 0..TScale, t2 \in 0..TScale :
    /\ PointStep
    /\ t1 <= t2
    /\ calculator' = PointCalculatorSplit(calculator, t1, t2)
    /\ last' = [op |-> "PointCalculator.split", t1 |-> t1, t2 |-> t2]

\* calculator = calculator.convert(svgChar)
PointConvert ==
  \E svgChar \in SvgCharKinds :
    /\ PointStep
    /\ calculator' = PointCalculatorConvert(calculator, svgChar)
    /\ last' = [op |-> "PointCalculator.convert", svgChar |-> svgChar]

\* calculator.toCommand()
PointToCommand ==
  /\ PointStep
  /\ last' = [op |-> "PointCalculator.toCommand",
              result |-> PointCalculatorToCommand(calculator)]
  /\ UNCHANGED calculator

\* new PointCalculator(svgChar, point)
InitPoint ==
  /\ calculator \in {[svgChar |-> svgChar, point |-> Pt(c, TScale)] :
                       svgChar \in SvgCharKinds, c \in 0..1}
  /\ effects = NoEffects
  /\ cs = NoCommandState
  /\ other = NoCommandState
  /\ subPathStateMap = <<>>
  /\ subPathOrdering = <<>>
  /\ numCollapsingSubPaths = 0
  /\ idCounter = 0
  /\ steps = 0
  /\ source = NoSource
  /\ last = [op |-> "new"]

NextPoint ==
  \/ PointSplit
  \/ PointConvert
  \/ PointToCommand

SpecPoint == InitPoint /\ [][NextPoint]_vars

\* ---------------------------------------------------------------------
\* The specification of ProjectsEffects
\* ---------------------------------------------------------------------

\* one more event of the effects; no CommandState or path is involved
EffectsStep ==
  UNCHANGED <<cs, other, subPathStateMap, subPathOrdering, numCollapsingSubPaths,
              idCounter, steps, source, calculator>>

\* store.dispatch(new Create(..)), new Update(..) or new Delete(..)
Dispatch ==
  \E type \in WriteActionTypes :
    /\ EffectsStep
    /\ Len(effects.writes) < MaxWrites
    /\ effects' = SwitchMap(effects, type)
    /\ last' = [op |-> "dispatch", type |-> type]

\* Firestore completes a write that is under way
FirestoreCompletes ==
  \E w \in 1..Len(effects.writes) :
    /\ EffectsStep
    /\ ~effects.writes[w].completed
    /\ effects' = WriteCompletes(effects, w)
    /\ last' = [op |-> "completed", write |-> w]

\* new ProjectsEffects(actions$, afs)
InitEffects ==
  /\ effects = NoEffects
  /\ calculator = NoCalculator
  /\ cs = NoCommandState
  /\ other = NoCommandState
  /\ subPathStateMap = <<>>
  /\ subPathOrdering = <<>>
  /\ numCollapsingSubPaths = 0
  /\ idCounter = 0
  /\ steps = 0
  /\ source = NoSource
  /\ last = [op |-> "new"]

NextEffects ==
  \/ Dispatch
  \/ FirestoreCompletes

SpecEffects == InitEffects /\ [][NextEffects]_vars

----------------------------------------------------------------------------
(* Claims about one CommandState *)

Sorted(mutations) ==
  \A i \in 1..(Len(mutations) - 1) : mutations[i].t <= mutations[i + 1].t

\* the list is non-empty and its last mutation has t = 1
EndsAtOne(c) ==
  /\ Len(c.mutations) > 0
  /\ c.mutations[Len(c.mutations)].t = TScale

\* the list is non-empty and its last mutation has t = maxT
EndsAtMaxT(c) ==
  /\ Len(c.mutations) > 0
  /\ c.mutations[Len(c.mutations)].t = c.maxT

\* the list is sorted and every t lies in [minT, maxT]
SortedInRange(c) ==
  /\ Sorted(c.mutations)
  /\ \A i \in 1..Len(c.mutations) :
        c.minT <= c.mutations[i].t /\ c.mutations[i].t <= c.maxT

\* C3 as stated: every reachable CommandState has a non-empty mutation list,
\* sorted ascending by t, whose last mutation has t = 1.
C3_Original ==
  /\ Len(cs.mutations) > 0
  /\ Sorted(cs.mutations)
  /\ cs.mutations[Len(cs.mutations)].t = TScale

\* the step removes the terminal mutation or cuts the state in two
C3_CutsTerminal ==
  \/ last'.op = "unsplitAtIndex" /\ last'.splitIdx = Len(cs.mutations) - 1
  \/ last'.op = "fork"

\* C3 amended: the mutation list is always sorted ascending by t with every t
\* in [minT, maxT]; every operation but an unsplitAtIndex of the last index
\* and a fork keeps a list that ends at t = 1 non-empty and ending at t = 1;
\* the left half of a fork ends at its maxT, which is the t of the fork index.
C3_Amended ==
  /\ [](SortedInRange(cs) /\ SortedInRange(other))
  /\ [][(EndsAtOne(cs) /\ ~C3_CutsTerminal) => EndsAtOne(cs')]_vars
  /\ [][last'.op = "fork" =>
          LET left == IF last'.side = "left" THEN cs' ELSE other'
          IN  /\ EndsAtMaxT(left)
              /\ left.maxT = cs.mutations[last'.splitIdx + 1].t]_vars

\* C3 witness: a CommandState with three mutations at distinct t values that
\* was split, or one that is the left half of a fork ending below t = 1
C3_Witness ==
  \/ /\ last.op = "splitAtIndex"
     /\ Len(cs.mutations) = 3
     /\ cs.mutations[1].t < cs.mutations[2].t
     /\ cs.mutations[2].t < cs.mutations[3].t
  \/ /\ last.op = "fork"
     /\ last.side = "left"
     /\ Len(cs.mutations) = 1
     /\ cs.maxT < TScale

\* C4: a built CommandState has one command per mutation, the i-th command
\* carries the i-th mutation's id, and exactly the commands before the last
\* are flagged as split boundaries.
C4_BuildMatchesMutations ==
  last.op # "new" =>
    /\ Len(cs.commands) = Len(cs.mutations)
    /\ \A i \in 1..Len(cs.commands) :
          /\ cs.commands[i].id = cs.mutations[i].id
          /\ cs.commands[i].isSplit = (i < Len(cs.commands))

\* C4 witness: a built CommandState with three commands
C4_Witness ==
  /\ last.op # "new"
  /\ Len(cs.mutations) = 3
  /\ Len(cs.commands) = 3

NoNonTerminalClose(c) ==
  \A i \in 1..(Len(c.mutations) - 1) : c.mutations[i].svgChar # "Z"

AllNonTerminalLine(c) ==
  \A i \in 1..(Len(c.mutations) - 1) : c.mutations[i].svgChar = "L"

\* every mutation before the last has kind Line and the last one Line or Close
LinesThenClose(c) ==
  /\ AllNonTerminalLine(c)
  /\ Len(c.mutations) > 0 => c.mutations[Len(c.mutations)].svgChar \in {"L", "Z"}

\* C5 as stated: in a Close-backed CommandState every mutation except the
\* last has kind Line.
C5_Original ==
  cs.backingCommand.svgChar = "Z" => AllNonTerminalLine(cs)

\* C5 amended: in a Close-backed CommandState only convertAtIndex gives a
\* mutation before the last the kind Close or a kind other than Line:
\* after a split or an unconvertSubpath no mutation before the last has kind
\* Close, after an unconvertSubpath they all have kind Line, and every
\* operation but convertAtIndex keeps "all before the last are Line and the
\* last is Line or Close", which holds of a fresh CommandState.
C5_Amended ==
  /\ [][last'.op \in {"splitAtIndex", "splitInHalfAtIndex", "unconvertSubpath"}
          => NoNonTerminalClose(cs')]_vars
  /\ [][last'.op = "unconvertSubpath" => AllNonTerminalLine(cs')]_vars
  /\ [][(LinesThenClose(cs) /\ last'.op # "convertAtIndex")
          => LinesThenClose(cs')]_vars

\* C5 witness: a Close-backed CommandState that was split into three, its two
\* leading mutations Line and its last one Close
C5_Witness ==
  /\ cs.backingCommand.svgChar = "Z"
  /\ last.op = "splitAtIndex"
  /\ Len(cs.mutations) = 3
  /\ cs.mutations[1].svgChar = "L"
  /\ cs.mutations[2].svgChar = "L"
  /\ cs.mutations[3].svgChar = "Z"

\* splitAtIndex(i, [k / TScale]) followed by unsplitAtIndex(i)
SplitThenUnsplit(c, i, k) ==
  UnsplitAtIndex(SplitAtIndex(c, i, <<k>>, idCounter), i)

\* C6 as stated: for every valid index i and every t, splitAtIndex(i, [t])
\* followed by unsplitAtIndex(i) gives back the command list.
C6_Original ==
  \A i \in SplitIdxs(cs), k \in 0..TScale :
    SplitAtIndexExact(cs, i, <<k>>) =>
      SplitThenUnsplit(cs, i, k).commands = cs.commands

\* the split value lies above the boundary that precedes index i
C6_AboveBoundary(c, i, k) ==
  i = 0 \/ Lerp(TempSplits(c)[i + 1], TempSplits(c)[i + 2], k) > TempSplits(c)[i + 1]

\* C6 amended: the round trip gives back the command list (ids, kinds and
\* ranges) when the backing command is not a Move, no mutation before the last
\* has kind Close, and the split value lies above the boundary preceding
\* index i (for i > 0: t > 0 and a range that is not empty).
C6_Amended ==
  \A i \in SplitIdxs(cs), k \in 0..TScale :
    ( /\ SplitAtIndexExact(cs, i, <<k>>)
      /\ cs.backingCommand.svgChar # "M"
      /\ NoNonTerminalClose(cs)
      /\ C6_AboveBoundary(cs, i, k) ) =>
        SplitThenUnsplit(cs, i, k).commands = cs.commands

\* C6 witness: a CommandState with two mutations, produced by a split, on
\* which a split strictly inside the second range and the unsplit of it change
\* the list and change it back
C6_Witness ==
  /\ last.op = "splitAtIndex"
  /\ cs.backingCommand.svgChar # "M"
  /\ Len(cs.mutations) = 2
  /\ \E k \in 1..(TScale - 1) :
        /\ SplitAtIndexExact(cs, 1, <<k>>)
        /\ C6_AboveBoundary(cs, 1, k)
        /\ SplitAtIndex(cs, 1, <<k>>, idCounter).commands # cs.commands
        /\ SplitThenUnsplit(cs, 1, k).commands = cs.commands

----------------------------------------------------------------------------
(* Claims about the PathMutator *)

\* C1: the first command build() returns has no start point, and every later
\* one starts at the end point of the command before it in the output.
C1_BuildIsContinuous ==
  (last.op = "build" /\ ~last.error) =>
    /\ Len(last.commands) > 0 => last.commands[1].start = NoPoint
    /\ \A i \in 2..Len(last.commands) :
          last.commands[i].start = last.commands[i - 1].end

\* C1 witness: a build() of a reordered, cut path whose first command had a
\* start point and in which some command did not start where the one before
\* it ended
C1_Witness ==
  /\ last.op = "build"
  /\ ~last.error
  /\ subPathOrdering # <<0, 1>>
  /\ Len(last.commands) >= 6
  /\ LET reordered == ReorderedCommands(subPathStateMap, subPathOrdering)
     IN  /\ reordered[1].start # NoPoint
         /\ \E i \in 2..Len(reordered) : reordered[i].start # reordered[i - 1].end

\* C2: subPathOrdering is a permutation of 0..L-1, L the number of leaves.
C2_OrderingIsPermutation ==
  /\ Len(subPathOrdering) = CountSubPathStates(subPathStateMap)
  /\ {subPathOrdering[i] : i \in 1..Len(subPathOrdering)}
       = 0..(CountSubPathStates(subPathStateMap) - 1)

\* shiftSubPathForward(subIdx, n) followed by shiftSubPathBack(subIdx, n)
ShiftForwardThenBack(map, ordering, subIdx, n) ==
  ShiftSubPathBack(ShiftSubPathForward(map, ordering, subIdx, n), ordering, subIdx, n)

\* C7: shiftSubPathForward(subIdx, n) followed by shiftSubPathBack(subIdx, n)
\* restores the shiftOffset of the sub path, whatever its reversal, for n >= 0.
C7_ShiftRoundTrip ==
  \A subIdx \in SubIdxs, n \in 0..(MaxShifts + 1) :
    ResolvesSubIdx(subPathStateMap, subPathOrdering, subIdx) =>
      ShiftForwardThenBack(subPathStateMap, subPathOrdering, subIdx, n) = subPathStateMap

\* C8: reverseSubPath(subIdx) applied twice restores isReversed and leaves
\* every other field of the forest as it was.
C8_ReverseTwice ==
  \A subIdx \in SubIdxs :
    ResolvesSubIdx(subPathStateMap, subPathOrdering, subIdx) =>
      ReverseSubPath(ReverseSubPath(subPathStateMap, subPathOrdering, subIdx),
                     subPathOrdering, subIdx) = subPathStateMap

\* C8 witness: a leaf below a split node that reverseSubPath has just brought
\* back to not reversed
C8_Witness ==
  /\ last.op = "reverseSubPath"
  /\ ~last.error
  /\ LET sps == FindSubPathState(subPathStateMap, subPathOrdering[last.subIdx + 1])
     IN  ~sps.isReversed
  /\ \E i \in 1..Len(subPathStateMap) : IsSplit(subPathStateMap[i])

RECURSIVE Nodes(_)
\* every node of the forest
Nodes(states) ==
  IF Len(states) = 0 THEN {}
  ELSE {Head(states)} \cup Nodes(Head(states).splitSubPaths) \cup Nodes(Tail(states))

\* C9: splitStrokedSubPath(subIdx, cmdIdx) replaces the leaf by a node with two
\* leaf children that carry fresh distinct ids, the command counts of the two
\* add up to that of the leaf plus one, and subPathOrdering grows by one entry.
C9_SplitStroked ==
  [][(last'.op = "splitStrokedSubPath" /\ ~last'.error) =>
       LET cmsIdx == subPathOrdering[last'.subIdx + 1]
           leaf == FindSubPathState(subPathStateMap, cmsIdx)
           first == FindSubPathState(subPathStateMap', cmsIdx)
           second == FindSubPathState(subPathStateMap', cmsIdx + 1)
           oldIds == {n.id : n \in Nodes(subPathStateMap)}
       IN  /\ CountSubPathStates(subPathStateMap') = CountSubPathStates(subPathStateMap) + 1
           /\ \E node \in Nodes(subPathStateMap') :
                 /\ node.id = leaf.id
                 /\ node.splitSubPaths = <<first, second>>
           /\ ~IsSplit(first) /\ ~IsSplit(second)
           /\ first.id # second.id
           /\ first.id \notin oldIds /\ second.id \notin oldIds
           /\ NumCommands(first) + NumCommands(second) = NumCommands(leaf) + 1
           /\ second.commandStates[1].backingCommand.svgChar = "M"
           /\ Len(subPathOrdering') = Len(subPathOrdering) + 1]_vars

\* C9 witness: a leaf with four commands, one of them produced by a split, cut
\* in two at its third command
C9_Witness ==
  /\ last.op = "splitStrokedSubPath"
  /\ ~last.error
  /\ last.cmdIdx = 2
  /\ Len(subPathOrdering) = 3
  /\ \E node \in Nodes(subPathStateMap) :
        /\ Len(node.splitSubPaths) = 2
        /\ NumCommands(node.splitSubPaths[1]) + NumCommands(node.splitSubPaths[2]) = 5

\* exactly one of commandStates and splitSubPaths is not empty
TaggedUnion(node) ==
  (Len(node.commandStates) > 0) # (Len(node.splitSubPaths) > 0)

\* C10: after any sequence of splitStrokedSubPath and unsplitSubPath every node
\* of the forest has either commandStates or splitSubPaths, never both or none.
C10_NodesAreTaggedUnions ==
  \A node \in Nodes(subPathStateMap) : TaggedUnion(node)

\* C10 witness: a forest in which unsplitSubPath has made a leaf of a node
\* again while another node is still split
C10_Witness ==
  /\ last.op = "unsplitSubPath"
  /\ ~last.error
  /\ \E node \in Nodes(subPathStateMap) : IsSplit(node)

\* the ids of the commands of a leaf, in the order of its CommandStates
CommandIds(sps) ==
  LET cmds == FlattenCommands(sps.commandStates)
  IN  [i \in 1..Len(cmds) |-> cmds[i].id]

\* (subIdx, cmdIdx) resolves to a command of a leaf
ResolvesCommand(subIdx, cmdIdx) ==
  /\ ResolvesSubIdx(subPathStateMap, subPathOrdering, subIdx)
  /\ cmdIdx \in CmdIdxs(subIdx)
  /\ ~FindCommandStateInfoThrows(subPathStateMap, subPathOrdering, subIdx, cmdIdx)

\* splitStrokedSubPath(subIdx, cmdIdx) followed by unsplitSubPath(subIdx) runs
\* to completion and gives back the leaf, its command ids and the length of
\* subPathOrdering
StrokedRoundTrip(subIdx, cmdIdx) ==
  LET cmsIdx == subPathOrdering[subIdx + 1]
      leaf == FindSubPathState(subPathStateMap, cmsIdx)
      map1 == SplitStrokedSubPath(subPathStateMap, subPathOrdering, subIdx, cmdIdx,
                                  idCounter)
      ordering1 == SplitStrokedOrdering(subPathOrdering)
  IN  /\ ~UnsplitSubPathThrows(map1, ordering1, subIdx)
      /\ LET map2 == UnsplitSubPath(map1, ordering1, subIdx)
             restored == FindSubPathState(map2, cmsIdx)
         IN  /\ CountSubPathStates(map2) = CountSubPathStates(subPathStateMap)
             /\ restored.id = leaf.id
             /\ ~IsSplit(restored)
             /\ CommandIds(restored) = CommandIds(leaf)
      /\ Len(UnsplitSubPathOrdering(ordering1, subIdx)) = Len(subPathOrdering)

\* C11: for a sub path in any root and any cmdIdx resolving to one of its
\* commands, splitStrokedSubPath(subIdx, cmdIdx) followed by
\* unsplitSubPath(subIdx) completes without error, makes the node a single leaf
\* again with the command ids it had, and gives subPathOrdering its length back.
C11_StrokedRoundTrip ==
  \A subIdx \in SubIdxs :
    \A cmdIdx \in CmdIdxs(subIdx) :
      ResolvesCommand(subIdx, cmdIdx) => StrokedRoundTrip(subIdx, cmdIdx)

\* the entries of ordering below n, in their order
EntriesBelow(ordering, n) ==
  LET Below(c) == c < n
  IN  SelectSeq(ordering, Below)

\* ordering is a permutation of 0..n-1
IsPermutation(ordering, n) ==
  /\ Len(ordering) = n
  /\ {ordering[i] : i \in 1..Len(ordering)} = 0..(n - 1)

\* C12: after k >= 1 addCollapsingSubPath calls interleaved with moveSubPath
\* calls, deleteCollapsingSubPaths removes exactly the k collapsing sub paths
\* (the last k roots), sets the collapsing count to 0 and leaves subPathOrdering
\* a permutation of the remaining sub paths in the visible order they had.
C12_DeleteCollapsing ==
  [][(last'.op = "deleteCollapsingSubPaths" /\ numCollapsingSubPaths >= 1) =>
       LET k == numCollapsingSubPaths
           numLeaves == CountSubPathStates(subPathStateMap)
       IN  /\ ~last'.error
           /\ subPathStateMap' = SubSeq(subPathStateMap, 1, Len(subPathStateMap) - k)
           /\ numCollapsingSubPaths' = 0
           /\ IsPermutation(subPathOrdering', CountSubPathStates(subPathStateMap'))
           /\ subPathOrdering' = EntriesBelow(subPathOrdering, numLeaves - k)]_vars

\* the number of mutations with a t below raw
NumBelow(c, raw) == Cardinality({i \in 1..Len(c.mutations) : c.mutations[i].t < raw})

\* result.t is the quotient (raw - lo) / (hi - lo), or 0 when lo = hi
RemapsInto(result, raw, lo, hi) ==
  /\ result.t.den # 0
  /\ IF lo = hi THEN result.t.num = 0
     ELSE result.t.num * (hi - lo) = (raw - lo) * result.t.den

\* C13: project returns as splitIdx the number of mutations with t strictly
\* below the raw t, and as t the quotient (raw - lo) / (hi - lo), hi the t of
\* the mutation at splitIdx and lo the t of the mutation before it (minT for
\* splitIdx 0), or 0 when lo = hi.
C13_ProjectRemaps ==
  last.op = "project" =>
    LET splitIdx == last.result.splitIdx
    IN  /\ splitIdx = NumBelow(cs, last.raw)
        /\ splitIdx < Len(cs.mutations)
        /\ RemapsInto(last.result, last.raw,
                      IF splitIdx = 0 THEN cs.minT ELSE cs.mutations[splitIdx].t,
                      cs.mutations[splitIdx + 1].t)

\* the two halves a fork step produced
ForkedLeft == IF last.side = "left" THEN cs ELSE other
ForkedRight == IF last.side = "left" THEN other ELSE cs

\* C14: fork(splitIdx) returns a left half holding mutations 0..splitIdx with
\* maxT the t of mutation splitIdx and minT unchanged, and a right half holding
\* the mutations after splitIdx with minT that same t and maxT unchanged; the
\* two lists concatenated are the original list, which the two halves are both
\* cut from (the original is not changed by the cut of the left half).
C14_Fork ==
  [][last'.op = "fork" =>
       LET n == Len(cs.mutations)
           i == last'.splitIdx + 1
       IN  /\ ForkedLeft'.mutations = SubSeq(cs.mutations, 1, i)
           /\ ForkedLeft'.maxT = cs.mutations[i].t
           /\ ForkedLeft'.minT = cs.minT
           /\ ForkedRight'.mutations = SubSeq(cs.mutations, i + 1, n)
           /\ ForkedRight'.minT = cs.mutations[i].t
           /\ ForkedRight'.maxT = cs.maxT
           /\ ForkedLeft'.mutations \o ForkedRight'.mutations = cs.mutations
           /\ ForkedLeft'.backingCommand = cs.backingCommand
           /\ ForkedRight'.backingCommand = cs.backingCommand]_vars

\* a fork has cut a list of several mutations into two non-empty halves
C14_Witness ==
  /\ last.op = "fork"
  /\ Len(cs.mutations) >= 1
  /\ other # NoCommandState
  /\ Len(other.mutations) >= 1

\* the ids of a mutation list
MutationIds(mutations) == {mutations[i].id : i \in 1..Len(mutations)}

\* the id and t of each mutation of the list that carries one of the ids
IdsAndTs(mutations, ids) ==
  LET Kept(m) == m.id \in ids
      kept == SelectSeq(mutations, Kept)
  IN  [i \in 1..Len(kept) |-> [id |-> kept[i].id, t |-> kept[i].t]]

\* the mutation that owns position v: the first one whose range reaches v
Owner(mutations, v) ==
  CHOOSE j \in 1..Len(mutations) :
    /\ v <= mutations[j].t
    /\ j = 1 \/ mutations[j - 1].t < v

\* the mutations a split added are |ts| ones with ids that were not present,
\* one at each interpolated value
AddsOnePerT(old, new, ts, lo, hi) ==
  LET fresh == {k \in 1..Len(new) : new[k].id \notin MutationIds(old)}
  IN  /\ Len(new) = Len(old) + Len(ts)
      /\ Cardinality(fresh) = Len(ts)
      /\ Cardinality({new[k].id : k \in fresh}) = Len(ts)
      /\ \A v \in 0..TScale :
           Cardinality({k \in fresh : new[k].t = v})
             = Cardinality({j \in 1..Len(ts) : Lerp(lo, hi, ts[j]) = v})

\* every mutation that was present keeps its id and t, in the same order
KeepsOld(old, new) ==
  IdsAndTs(new, MutationIds(old)) = IdsAndTs(old, MutationIds(old))

\* a split of a state not backed by a Move has just been made
SplitStep == last'.op = "splitAtIndex" /\ cs.backingCommand.svgChar # "M"

CoveredRange(c) ==
  IF Len(c.mutations) = 0 THEN <<>>
  ELSE <<c.minT, c.mutations[Len(c.mutations)].t,
         c.commands[1].start, c.commands[Len(c.commands)].end>>

\* new is old without its mutation at the 0-based index splitIdx
RemovesExactly(old, new, splitIdx) ==
  /\ Len(new) = Len(old) - 1
  /\ \A j \in 1..Len(new) : new[j] = old[IF j <= splitIdx THEN j ELSE j + 1]

C18_SplitMovesPivot ==
  [][(last'.op = "splitCommand" /\ ~last'.error) =>
       LET info == TargetInfo(last'.subIdx, last'.cmdIdx)
           before == TargetSps(last'.subIdx, last'.cmdIdx)
           after == FindSubPathState(subPathStateMap', info.cmsIdx)
           inserted == NumCommands(after) - NumCommands(before)
           splitCommandIdx == AdjustedCmdIdx(before, last'.cmdIdx)
       IN  before.shiftOffset # 0 =>
             after.shiftOffset =
               IF splitCommandIdx <= before.shiftOffset
                 THEN before.shiftOffset + inserted
                 ELSE before.shiftOffset]_vars

\* the shiftOffset of every leaf with more than one command is in the legal
\* range [0, numCommands - 1)
ShiftOffsetsInRange(map) ==
  \A i \in 1..Len(FlattenSubPathStates(map)) :
    LET sps == FlattenSubPathStates(map)[i]
    IN  NumCommands(sps) > 1 =>
          (0 <= sps.shiftOffset /\ sps.shiftOffset < NumCommands(sps) - 1)

\* a shift of a sub path with at most one command has just been made
ShiftOfShortSubPath ==
  /\ last'.op \in {"shiftSubPathBack", "shiftSubPathForward"}
  /\ ~last'.error
  /\ NumCommands(FindSubPathState(subPathStateMap,
                                  subPathOrdering[last'.subIdx + 1])) <= 1

\* C19: after any sequence of shiftSubPathBack, shiftSubPathForward,
\* splitCommand, splitCommandInHalf, unsplitCommand and splitStrokedSubPath
\* every leaf sub path with more than one command has
\* 0 <= shiftOffset < numCommands - 1, and a shift of a sub path with at most
\* one command leaves the state of the mutator as it was.
C19_ShiftOffsetInRange ==
  /\ []ShiftOffsetsInRange(subPathStateMap)
  /\ [][ShiftOfShortSubPath =>
          /\ subPathStateMap' = subPathStateMap
          /\ subPathOrdering' = subPathOrdering
          /\ numCollapsingSubPaths' = numCollapsingSubPaths]_vars

\* what the mutator holds now
MutatorContent ==
  IF source.kind = "CommandState" THEN CommandStateContent(cs)
  ELSE [NoContent EXCEPT !.subPathStateMap = subPathStateMap,
                         !.subPathOrdering = subPathOrdering]

Without(ordering, idx) ==
  SubSeq(ordering, 1, idx) \o SubSeq(ordering, idx + 2, Len(ordering))

\* moved holds the entries of ordering, the one of index fromSubIdx at index
\* toSubIdx and the others in the order they had
MovedEntry(ordering, moved, fromSubIdx, toSubIdx) ==
  /\ Len(moved) = Len(ordering)
  /\ \A e \in 0..Len(ordering) :
       Cardinality({i \in 1..Len(moved) : moved[i] = e})
         = Cardinality({i \in 1..Len(ordering) : ordering[i] = e})
  /\ moved[toSubIdx + 1] = ordering[fromSubIdx + 1]
  /\ Without(moved, toSubIdx) = Without(ordering, fromSubIdx)

\* C21: moveSubPath(from, to) with both indices in range changes only
\* subPathOrdering: the forest and the collapsing count are as they were, the
\* new ordering holds the entries of the old one, the entry that was at index
\* from is at index to, and the other entries keep their relative order. This
\* holds of every pair of indices of every reachable ordering, from = to
\* included, and of every moveSubPath step.
C21_MoveSubPath ==
  /\ [](\A fromSubIdx \in SubIdxs, toSubIdx \in SubIdxs :
          MovedEntry(subPathOrdering,
                     MoveSubPath(subPathOrdering, fromSubIdx, toSubIdx),
                     fromSubIdx, toSubIdx))
  /\ [][last'.op = "moveSubPath" =>
          /\ ~last'.error
          /\ subPathStateMap' = subPathStateMap
          /\ numCollapsingSubPaths' = numCollapsingSubPaths
          /\ idCounter' = idCounter
          /\ MovedEntry(subPathOrdering, subPathOrdering',
                        last'.fromSubIdx, last'.toSubIdx)]_vars

\* moveSubPath has carried an entry over another one in an ordering of three
\* or more entries
C21_Witness ==
  /\ last.op = "moveSubPath"
  /\ ~last.error
  /\ Len(subPathOrdering) >= 3
  /\ last.toSubIdx - last.fromSubIdx \in {2, -2}
  /\ subPathOrdering # [i \in 1..Len(subPathOrdering) |-> i - 1]

\* ---------------------------------------------------------------- C22

\* command indices just outside [0, number of commands) of the sub path at
\* subIdx: the one below, the first one above and the one after it
OutOfRangeCmdIdxs(subIdx) ==
  LET numCommandsInSubPath ==
        NumCommands(FindSubPathState(subPathStateMap, subPathOrdering[subIdx + 1]))
  IN  {-1, numCommandsInSubPath, numCommandsInSubPath + 1}

\* C22: an index-taking operation (splitCommand, splitCommandInHalf,
\* unsplitCommand, convertCommand, splitStrokedSubPath) called with a cmdIdx
\* outside [0, number of commands of the sub path) aborts with an error and
\* leaves the mutator as it was: the lookup findCommandStateInfo, which each of
\* them starts with, throws for every such index instead of resolving it to a
\* command of the sub path.
C22_OutOfRangeThrows ==
  \A subIdx \in SubIdxs :
    ResolvesSubIdx(subPathStateMap, subPathOrdering, subIdx) =>
      \A cmdIdx \in OutOfRangeCmdIdxs(subIdx) :
        FindCommandStateInfoThrows(subPathStateMap, subPathOrdering, subIdx, cmdIdx)

\* ---------------------------------------------------------------- C23

\* C23: splitCommand called with zero t values throws before it touches
\* anything: the forest, with every shiftOffset in it, subPathOrdering, the
\* collapsing count and the id counter are as they were.
C23_SplitWithoutTsThrows ==
  [][(last'.op = "splitCommand" /\ Len(last'.ts) = 0) =>
       /\ last'.error
       /\ subPathStateMap' = subPathStateMap
       /\ subPathOrdering' = subPathOrdering
       /\ numCollapsingSubPaths' = numCollapsingSubPaths
       /\ idCounter' = idCounter]_vars

\* splitCommand was called with no t value on a command that the lookup
\* resolves, in a sub path of nonzero shiftOffset
C23_Witness ==
  /\ last.op = "splitCommand"
  /\ Len(last.ts) = 0
  /\ last.error
  /\ ~FindCommandStateInfoThrows(subPathStateMap, subPathOrdering, last.subIdx, last.cmdIdx)
  /\ TargetSps(last.subIdx, last.cmdIdx).shiftOffset # 0

\* ---------------------------------------------------------------- C24

\* the number of entries of the list that are the mutation m
Occurrences(mutations, m) == Cardinality({i \in 1..Len(mutations) : mutations[i] = m})

\* merged is what the claim says of c.merge(o): every mutation of both, sorted
\* by t, from the least minT to the greatest maxT
MergedOf(c, o, merged) ==
  /\ Len(merged.mutations) = Len(c.mutations) + Len(o.mutations)
  /\ \A m \in {c.mutations[i] : i \in 1..Len(c.mutations)}
               \cup {o.mutations[i] : i \in 1..Len(o.mutations)}
               \cup {merged.mutations[i] : i \in 1..Len(merged.mutations)} :
       Occurrences(merged.mutations, m)
         = Occurrences(c.mutations, m) + Occurrences(o.mutations, m)
  /\ Sorted(merged.mutations)
  /\ merged.minT = Min(c.minT, o.minT)
  /\ merged.maxT = Max(c.maxT, o.maxT)

\* two mutations of the list share their id
SharesId(mutations) ==
  \E i, j \in 1..Len(mutations) : i < j /\ mutations[i].id = mutations[j].id

\* C24: merge(other) never aborts, also when the two CommandStates share a
\* mutation id: the merged list holds every mutation of both operands (its
\* length is the sum of their lengths) and is sorted ascending by t, minT is
\* the lesser minT and maxT the greater maxT. This holds of the merge of every
\* reachable pair and of every merge step.
C24_Merge ==
  /\ [](other # NoCommandState => MergedOf(cs, other, Merge(cs, other)))
  /\ [][last'.op = "merge" => MergedOf(cs, other, cs')]_vars

\* merge has put a mutation into a list that held its id already
C24_Witness ==
  /\ last.op = "merge"
  /\ SharesId(cs.mutations)
  /\ Len(other.mutations) >= 1

\* ---------------------------------------------------------------- C25

\* the number of points of a command of the kind
PointCount(svgChar) ==
  CASE svgChar \in {"L", "Z"} -> 2
    [] svgChar = "Q" -> 3
    [] svgChar = "C" -> 4
    [] OTHER -> 0

\* C25: PointCalculator.toCommand returns a command whose point count matches
\* its kind exactly (2 for Line and Close, 3 for Quadratic, 4 for Cubic) with
\* every point equal to the calculator's point, and throws for any other kind,
\* Move included; split and convert keep the point unchanged.
C25_PointCalculator ==
  /\ [](LET made == PointCalculatorToCommand(calculator)
        IN  IF calculator.svgChar \in {"L", "Z", "Q", "C"}
              THEN /\ ~made.error
                   /\ made.svgChar = calculator.svgChar
                   /\ Len(made.points) = PointCount(calculator.svgChar)
                   /\ \A i \in 1..Len(made.points) : made.points[i] = calculator.point
              ELSE made.error)
  /\ [][last'.op = "PointCalculator.toCommand" =>
          last'.result = PointCalculatorToCommand(calculator)]_vars
  /\ [][last'.op \in {"PointCalculator.split", "PointCalculator.convert"} =>
          calculator'.point = calculator.point]_vars
  /\ [][last'.op = "PointCalculator.split" =>
          calculator'.svgChar = calculator.svgChar]_vars
  /\ [][last'.op = "PointCalculator.convert" =>
          calculator'.svgChar = last'.svgChar]_vars

\* toCommand has thrown for a Move calculator that holds a point of the
\* path, after an earlier call on the calculator
C25_Witness ==
  /\ last.op = "PointCalculator.toCommand"
  /\ last.result.error
  /\ calculator.svgChar = "M"
  /\ calculator.point # NoPoint
  /\ steps = 2

\* ---------------------------------------------------------------- C26

\* every mutation has the kind of the backing command, but the non-terminal
\* mutations of a Close are Lines
Unconverted(c) ==
  \A i \in 1..Len(c.mutations) :
    c.mutations[i].svgChar =
      IF c.backingCommand.svgChar = "Z" /\ i < Len(c.mutations) THEN "L"
      ELSE c.backingCommand.svgChar

\* C26: unconvertSubpath() is idempotent: applied twice to any CommandState it
\* yields the same mutation list (ids, t values, kinds) as applied once, and
\* after it every mutation has the backing command's kind, except that the
\* non-terminal mutations of a Close-backed command have kind Line. This holds
\* of unconvertSubpath() applied to every reachable CommandState and of every
\* unconvertSubpath step.
C26_UnconvertIdempotent ==
  /\ [](LET once == UnconvertSubpath(cs)
        IN  /\ UnconvertSubpath(once).mutations = once.mutations
            /\ Unconverted(once)
            /\ Len(once.mutations) = Len(cs.mutations)
            /\ \A i \in 1..Len(cs.mutations) :
                 /\ once.mutations[i].id = cs.mutations[i].id
                 /\ once.mutations[i].t = cs.mutations[i].t)
  /\ [][last'.op = "unconvertSubpath" =>
          /\ Unconverted(cs')
          /\ UnconvertSubpath(cs').mutations = cs'.mutations]_vars

\* unconvertSubpath() has run on a Close cut in two and has made its first
\* mutation a Line
C26_Witness ==
  /\ last.op = "unconvertSubpath"
  /\ cs.backingCommand.svgChar = "Z"
  /\ Len(cs.mutations) >= 2
  /\ cs.mutations[1].svgChar = "L"
  /\ cs.mutations[Len(cs.mutations)].svgChar = "Z"

\* ---------------------------------------------------------------- C27

\* the path is in its initial state: no collapsing sub path, no split tree,
\* every CommandState reverted to its single mutation and untransformed, and
\* subPathOrdering the identity over the sub paths of the forest
InitialAgain(map, ordering, num) ==
  /\ num = 0
  /\ \A i \in 1..Len(map) :
       /\ ~IsSplit(map[i])
       /\ \A k \in 1..Len(map[i].commandStates) :
            /\ Len(map[i].commandStates[k].mutations) = 1
            /\ map[i].commandStates[k].transforms = <<IdentityMatrix>>
  /\ ordering = [i \in 1..CountSubPathStates(map) |-> i - 1]

\* C27: PathMutator.revert() returns the path to its initial state whatever
\* edits preceded it (splitStrokedSubPath and addCollapsingSubPath included):
\* it completes, and afterwards there are no collapsing sub paths and no split
\* trees, every CommandState is reverted, and subPathOrdering is the identity
\* permutation whose length equals the number of sub paths in the forest.
C27_RevertRestores ==
  [][last'.op = "revert" =>
       /\ ~last'.error
       /\ InitialAgain(subPathStateMap', subPathOrdering', numCollapsingSubPaths')]_vars

\* ---------------------------------------------------------------- C28

\* the ids of the commands of a leaf in the order they are read out
VisibleIds(sps) ==
  LET cmds == VisibleCommands(sps)
  IN  [i \in 1..Len(cmds) |-> cmds[i].id]

\* the readout of the commands that exist before and after is kept: the one
\* read out at visible position 0 is the same, and their order is the same
KeepsReadout(before, after) ==
  LET old == VisibleIds(before)
      new == VisibleIds(after)
      InOld(id) == \E i \in 1..Len(old) : old[i] = id
      InNew(id) == \E i \in 1..Len(new) : new[i] = id
  IN  /\ (InNew(old[1]) /\ InOld(new[1])) => new[1] = old[1]
      /\ SelectSeq(new, InOld) = SelectSeq(old, InNew)

\* C28: splitCommand and unsplitCommand on a sub path with a nonzero
\* shiftOffset do not alter the positions of the path points that exist before
\* and after: the command read out at visible position 0 is the same and the
\* visible order of the ids of these commands is kept, also when earlier
\* splits make command-state indices differ from command indices. Stated of
\* each of the two alone, it holds of one followed by the other as well.
C28_SplitKeepsReadout ==
  [][(last'.op \in {"splitCommand", "unsplitCommand"} /\ ~last'.error) =>
       LET before == TargetSps(last'.subIdx, last'.cmdIdx)
           after == FindSubPathState(subPathStateMap',
                                     TargetInfo(last'.subIdx, last'.cmdIdx).cmsIdx)
       IN  before.shiftOffset # 0 => KeepsReadout(before, after)]_vars

\* ---------------------------------------------------------------- C29

\* C29: for every CommandState reachable by split, unsplit, fork and merge
\* operations and every raw projection t in [0,1] reported by its calculator,
\* project returns a splitIdx that is a valid mutation index
\* (0 <= splitIdx < mutations.length) and a remapped t within [0,1].
C29_ProjectInRange ==
  last.op = "project" =>
    /\ last.result.splitIdx \in 0..(Len(cs.mutations) - 1)
    /\ last.result.t.den > 0
    /\ 0 <= last.result.t.num
    /\ last.result.t.num <= last.result.t.den

\* ---------------------------------------------------------------- C30

\* C30: splitStrokedSubPath(subIdx, cmdIdx) does not change what is shown at
\* the other visible positions: for every visible index j other than subIdx
\* that existed before the split, the leaf (by id) that subPathOrdering
\* resolves j to is the same after the split as before, wherever the split
\* sub path sits in document order.
C30_SplitStrokedKeepsOthers ==
  [][(last'.op = "splitStrokedSubPath" /\ ~last'.error) =>
       \A j \in SubIdxs \ {last'.subIdx} :
         ResolvesSubIdx(subPathStateMap, subPathOrdering, j) =>
           /\ ResolvesSubIdx(subPathStateMap', subPathOrdering', j)
           /\ FindSubPathState(subPathStateMap', subPathOrdering'[j + 1]).id
                = FindSubPathState(subPathStateMap, subPathOrdering[j + 1]).id]_vars

\* ---------------------------------------------------------------- C31

\* left.mutate().merge(right).build() of the two halves of c.fork(splitIdx)
ForkThenMerge(c, splitIdx) == Merge(Fork(c, splitIdx).left, Fork(c, splitIdx).right)

\* C31: for any CommandState and valid splitIdx, merging the two halves of
\* fork(splitIdx) back together (left.mutate().merge(right)) restores the
\* original mutation list in the original order, also when several mutations
\* share the same t value, and restores the original minT and maxT.
C31_ForkMergeRestores ==
  \A splitIdx \in SplitIdxs(cs) :
    Len(cs.mutations) > 0 =>
      /\ ForkThenMerge(cs, splitIdx).mutations = cs.mutations
      /\ ForkThenMerge(cs, splitIdx).minT = cs.minT
      /\ ForkThenMerge(cs, splitIdx).maxT = cs.maxT

\* ---------------------------------------------------------------- C32

\* C32: in ProjectsEffects, every Create, Update or Delete action whose
\* Firestore write has completed has led to exactly one Success action, also
\* when another action of the same type was dispatched while the earlier write
\* was still in flight.
C32_OneSuccessPerWrite ==
  \A w \in 1..Len(effects.writes) :
    effects.writes[w].completed => effects.writes[w].successes = 1

====
